---- MODULE Spec2Model ----
(***************************************************************************)
(* Model of the build-time registry assembly pipeline of initcn:          *)
(*   scripts/builders/base-builder.ts   pattern matching, target paths     *)
(*   scripts/builders/{auth,i18n,payment,vite,tanstack-start}.ts builders  *)
(*   scripts/builders/registry.ts       builder discovery and selection    *)
(*   scripts/builders/shared.ts         file walk, file type, writer       *)
(*   scripts/build-infra-registry.ts    validateConfig, generateRegistry,  *)
(*                                      main                               *)
(*                                                                         *)
(* JavaScript strings are TLA+ strings; the String methods the code uses   *)
(* are the operators of the first section, computed character by          *)
(* character.  An optional property is a sequence of length 0 (absent)    *)
(* or 1 (present, holding the value).                                      *)
(***************************************************************************)
EXTENDS Integers, Sequences, FiniteSets, TLC

VARIABLES
    pc,                \* position of control of the operation under study
    config,            \* the descriptor (ConfigJson) in hand
    builders,          \* InfraBuilder[]: the registered builders, in order
    builder,           \* the builder whose getTargetPath is applied
    relativePath,      \* relative(sourceDir, filePath)
    ourRegistryNames,  \* Set<string> collected by pass 1
    ret,               \* outcome of the operation: a return value or a thrown Error
    registryUrl,       \* siteConfig.registryUrl
    builderModules,    \* listing of the builders/ directory
    infraRoot,         \* the src/registry/infra directory on disk
    infraDirs,         \* the feature directories main() found, in listing order
    outputDir,         \* the public/r directory: file name -> manifest written
    idx,               \* index of the loop main() is in
    log                \* the lines written to the console, in order

vars == <<pc, config, builders, builder, relativePath, ourRegistryNames, ret,
          registryUrl, builderModules, infraRoot, infraDirs, outputDir, idx, log>>

\* the state of the build run, which the operations on one descriptor leave alone
runVars == <<registryUrl, builderModules, infraRoot, infraDirs, outputDir, idx, log>>

-----------------------------------------------------------------------------
(* Optional properties                                                     *)

Absent == <<>>

Some(v) == <<v>>

IsPresent(o) == o /= <<>>

Val(o) == o[1]

-----------------------------------------------------------------------------
(* JavaScript String methods                                               *)

\* s.startsWith(p)
StartsWith(s, p) == Len(s) >= Len(p) /\ SubSeq(s, 1, Len(p)) = p

\* s.endsWith(p)
EndsWith(s, p) == Len(s) >= Len(p) /\ SubSeq(s, Len(s) - Len(p) + 1, Len(s)) = p

\* s.indexOf(sub) + 1 for a non-empty sub: first position of sub in s, 0 when there is none
IndexOf(s, sub) ==
    LET hits == {i \in 1..(Len(s) - Len(sub) + 1) : SubSeq(s, i, i + Len(sub) - 1) = sub}
    IN  IF hits = {} THEN 0 ELSE CHOOSE i \in hits : \A j \in hits : i <= j

\* s.includes(sub)
Includes(s, sub) == IndexOf(s, sub) /= 0

\* s.slice(n): s without its first n characters
SliceFrom(s, n) == SubSeq(s, n + 1, Len(s))

\* s.slice(0, -n): s without its last n characters
SliceEnd(s, n) == SubSeq(s, 1, Len(s) - n)

\* s.replace(sub, rep) with a string pattern: the first occurrence only
\* (rep holds no "$", which replace would read as a substitution pattern)
ReplaceFirst(s, sub, rep) ==
    LET i == IndexOf(s, sub)
    IN  IF i = 0 THEN s
        ELSE SubSeq(s, 1, i - 1) \o rep \o SubSeq(s, i + Len(sub), Len(s))

\* s.replace(sub, rep) in the place of s.replace(/sub/g, rep)
ReplaceAllFirstOnly(s, sub, rep) == ReplaceFirst(s, sub, rep)

\* s.replace(/sub/g, rep) for a literal sub: every occurrence, left to right,
\* the replacement text is not scanned again
RECURSIVE ReplaceAll(_, _, _)
ReplaceAll(s, sub, rep) ==
    LET i == IndexOf(s, sub)
    IN  IF i = 0 THEN s
        ELSE SubSeq(s, 1, i - 1) \o rep
                \o ReplaceAll(SubSeq(s, i + Len(sub), Len(s)), sub, rep)

\* s.split("/").pop(): the text after the last "/"
RECURSIVE LastSegment(_)
LastSegment(s) ==
    LET i == IndexOf(s, "/")
    IN  IF i = 0 THEN s ELSE LastSegment(SliceFrom(s, i))

\* positions i of s such that s[i..] is sub followed by one or more characters
\* that are not `stop`, up to the end of s: the matches of /sub[^stop]+$/
TailMatches(s, sub, stop) ==
    {i \in 1..Len(s) :
        /\ i + Len(sub) <= Len(s)
        /\ SubSeq(s, i, i + Len(sub) - 1) = sub
        /\ ~Includes(SubSeq(s, i + Len(sub), Len(s)), stop)}

\* index of the leftmost match of /sub[^stop]+$/ in s, 0 when there is none
TailMatch(s, sub, stop) ==
    LET m == TailMatches(s, sub, stop)
    IN  IF m = {} THEN 0 ELSE CHOOSE i \in m : \A j \in m : i <= j

\* arr.join(sep)
RECURSIVE Join(_, _)
Join(arr, sep) ==
    IF arr = <<>> THEN ""
    ELSE IF Len(arr) = 1 THEN arr[1]
    ELSE arr[1] \o sep \o Join(Tail(arr), sep)

\* arr.includes(v)
ArrIncludes(arr, v) == \E i \in 1..Len(arr) : arr[i] = v

-----------------------------------------------------------------------------
(* Descriptors (ConfigJson)                                                *)

\* the descriptor record; every property is optional in the parsed JSON
Descriptor(name, type, title, description, registryDependencies, capabilities, targetMappings) ==
    [name |-> name, type |-> type, title |-> title, description |-> description,
     dependencies |-> Absent, devDependencies |-> Absent,
     registryDependencies |-> registryDependencies,
     capabilities |-> capabilities, targetMappings |-> targetMappings]

\* capabilities: { orm?, framework? }
Capabilities(orm, framework) == [orm |-> orm, framework |-> framework]

\* config?.capabilities?.framework
FrameworkOf(cfg) ==
    IF IsPresent(cfg.capabilities) THEN Val(cfg.capabilities).framework ELSE Absent

-----------------------------------------------------------------------------
(* Builders: the classes of scripts/builders, named by constructor.name    *)

AuthBuilder == "AuthBuilder"

I18nBuilder == "I18nBuilder"

PaymentBuilder == "PaymentBuilder"

TanStackStartBuilder == "TanStackStartBuilder"

ViteBuilder == "ViteBuilder"

\* a mapping table is the sequence of its [pattern, target] entries in
\* declaration order (Object.entries of a Record<string, string>; the keys are
\* path patterns, none of them an integer index, which Object.entries would
\* move to the front)
\* BaseTargetMappings with server files left out of the feature directory
BaseTargetMappingsNoFeature ==
    << <<".env.example.*", ".env.example.*">>,
       <<"api/*", "app/api/*">>,
       <<"app/*", "app/*">>,
       <<"components/*", "components/*">>,
       <<"actions/*", "app/actions/*">>,
       <<"server/*", "lib/server/*">>,
       <<"client/*", "lib/client/*">>,
       <<"emails/*", "emails/*">>,
       <<"locales/*", "locales/*">>,
       <<"middleware.ts", "middleware.ts">>,
       <<"db.ts", "lib/server/db.ts">>,
       <<"mail.ts", "lib/server/mail.ts">>,
       <<"*", "lib/server/{feature}/*">> >>

BaseTargetMappings ==
    << <<".env.example.*", ".env.example.*">>,
       <<"api/*", "app/api/*">>,
       <<"app/*", "app/*">>,
       <<"components/*", "components/*">>,
       <<"actions/*", "app/actions/*">>,
       <<"server/*", "lib/server/{feature}/*">>,
       <<"client/*", "lib/client/*">>,
       <<"emails/*", "emails/*">>,
       <<"locales/*", "locales/*">>,
       <<"middleware.ts", "middleware.ts">>,
       <<"db.ts", "lib/server/db.ts">>,
       <<"mail.ts", "lib/server/mail.ts">>,
       <<"*", "lib/server/{feature}/*">> >>

ViteTargetMappings ==
    << <<".env.example.*", ".env.example">>,
       <<"vite.config.ts", "vite.config.auth.ts">>,
       <<"api/*", "server/api/*">>,
       <<"routes/*", "src/routes/*">>,
       <<"components/*", "src/components/*">>,
       <<"client/*", "src/lib/client/*">>,
       <<"server/*", "src/lib/server/{feature}/*">>,
       <<"constants/*", "src/lib/constants/*">>,
       <<"emails/*", "src/emails/*">>,
       <<"schemas/prisma.schema", "prisma/schema.prisma">>,
       <<"schemas/drizzle.schema.ts", "src/db/schema/{feature}.ts">>,
       <<"db.ts", "src/lib/server/db.ts">>,
       <<"mail.ts", "src/lib/server/mail.ts">>,
       <<"rate-limit.ts", "src/lib/server/rate-limit.ts">>,
       <<"*", "src/lib/server/{feature}/*">> >>

TanStackStartTargetMappings ==
    << <<".env.example.*", ".env.example">>,
       <<"api/*", "src/routes/api/*">>,
       <<"routes/*", "src/routes/*">>,
       <<"components/*", "src/components/*.tsx">>,
       <<"client/*", "src/lib/client/*">>,
       <<"server/*", "src/lib/server/{feature}/*">>,
       <<"emails/*", "src/emails/*">>,
       <<"schemas/prisma.schema", "prisma/schema.prisma">>,
       <<"schemas/drizzle.schema.ts", "src/db/schema/{feature}.ts">>,
       <<"db.ts", "src/lib/server/db.ts">>,
       <<"mail.ts", "src/lib/server/mail.ts">>,
       <<"rate-limit.ts", "src/lib/server/rate-limit.ts">>,
       <<"*", "src/lib/server/{feature}/*">> >>

\* this.defaultTargetMappings of builder b
defaultTargetMappings(b) ==
    CASE b = ViteBuilder -> ViteTargetMappings
      [] b = TanStackStartBuilder -> TanStackStartTargetMappings
      [] OTHER -> BaseTargetMappings

\* AuthBuilder.canHandle(registryName, _config)
AuthBuilder_canHandle(registryName) ==
    \/ StartsWith(registryName, "auth-")
    \/ registryName = "auth"
    \/ registryName = "otp"
    \/ registryName = "otp-shared"

\* I18nBuilder.canHandle(registryName, _config)
I18nBuilder_canHandle(registryName) ==
    StartsWith(registryName, "i18n-") \/ registryName = "i18n"

\* PaymentBuilder.canHandle(registryName, _config)
PaymentBuilder_canHandle(registryName) ==
    \/ StartsWith(registryName, "payment-")
    \/ registryName = "payment"
    \/ registryName = "subscription"
    \/ registryName = "subscription-shared"

\* TanStackStartBuilder.canHandle(registryName, config)
TanStackStartBuilder_canHandle(registryName, cfg) ==
    IF IsPresent(FrameworkOf(cfg))
    THEN ArrIncludes(Val(FrameworkOf(cfg)), "tanstack-start")
    ELSE Includes(registryName, "-tanstack-")

\* ViteBuilder.canHandle with the naming convention tried whatever the descriptor declares
ViteBuilder_canHandleNameToo(registryName, cfg) ==
    \/ IsPresent(FrameworkOf(cfg)) /\ ArrIncludes(Val(FrameworkOf(cfg)), "vite")
    \/ Includes(registryName, "-vite-")

\* ViteBuilder.canHandle(registryName, config)
ViteBuilder_canHandle(registryName, cfg) ==
    IF IsPresent(FrameworkOf(cfg))
    THEN ArrIncludes(Val(FrameworkOf(cfg)), "vite")
    ELSE Includes(registryName, "-vite-")

\* b.getFeatureName()
getFeatureName(b) ==
    CASE b = AuthBuilder -> "auth"
      [] b = I18nBuilder -> "i18n"
      [] b = PaymentBuilder -> "payment"
      [] b = TanStackStartBuilder -> "auth"
      [] b = ViteBuilder -> "auth"

\* b.canHandle(registryName, config)
canHandle(b, registryName, cfg) ==
    CASE b = AuthBuilder -> AuthBuilder_canHandle(registryName)
      [] b = I18nBuilder -> I18nBuilder_canHandle(registryName)
      [] b = PaymentBuilder -> PaymentBuilder_canHandle(registryName)
      [] b = TanStackStartBuilder -> TanStackStartBuilder_canHandle(registryName, cfg)
      [] b = ViteBuilder -> ViteBuilder_canHandle(registryName, cfg)

-----------------------------------------------------------------------------
(* BaseInfraBuilder: pattern matching and target resolution                *)

\* path.replace(/\\/g, "/")
NormalizePath(path) == ReplaceAll(path, "\\", "/")

\* new RegExp("^" + pattern.replace(/\./g, "\\.").replace(/\*/g, ".*") + "$").test(s)
\* for patterns made of letters, digits, "-", "_", "/", "." and "*": every
\* character stands for itself and "*" for any run of characters
RECURSIVE RegexTest(_, _)
RegexTest(pattern, s) ==
    IF pattern = "" THEN s = ""
    ELSE IF Head(pattern) = "*"
         THEN \E k \in 0..Len(s) : RegexTest(Tail(pattern), SliceFrom(s, k))
         ELSE /\ s /= ""
              /\ Head(s) = Head(pattern)
              /\ RegexTest(Tail(pattern), Tail(s))

\* BaseInfraBuilder.matchesPattern(path, pattern)
matchesPattern(path, pattern) ==
    LET normalizedPath == NormalizePath(path)
    IN  IF normalizedPath = pattern THEN TRUE
        ELSE IF EndsWith(pattern, "/*")
             THEN StartsWith(normalizedPath, SliceEnd(pattern, 2) \o "/")
        ELSE IF Includes(pattern, "*")
             THEN RegexTest(pattern, normalizedPath)
        ELSE IF pattern = "*" THEN TRUE
        ELSE FALSE

\* filename.replace(/\.[^.]+$/, "")
BaseNameOf(filename) ==
    LET i == TailMatch(filename, ".", ".")
    IN  IF i = 0 THEN filename ELSE SubSeq(filename, 1, i - 1)

\* target.match(/\*(\.[^/]+)$/)?.[1] || ""
TargetExtOf(target) ==
    LET i == TailMatch(target, "*.", "/")
    IN  IF i = 0 THEN "" ELSE SubSeq(target, i + 1, Len(target))

\* result.replace(/\*\.[^/]+$/, replacement)
ReplaceWildcardExt(result, replacement) ==
    LET i == TailMatch(result, "*.", "/")
    IN  IF i = 0 THEN result ELSE SubSeq(result, 1, i - 1) \o replacement

\* applyMapping without the last branch, the return of the source path
applyMappingNoPassThrough(sourcePath, pattern, target, featureName) ==
    LET normalizedPath == NormalizePath(sourcePath)
        r1 == ReplaceAll(target, "{feature}", featureName)
        r2 == IF EndsWith(pattern, "/*") /\ Includes(target, "*")
              THEN LET prefix == SliceEnd(pattern, 2)
                       suffix == SliceFrom(normalizedPath, Len(prefix) + 1)
                   IN  ReplaceFirst(r1, "*", suffix)
              ELSE r1
    IN  IF Includes(target, "*.")
        THEN LET filename == LastSegment(sourcePath)
             IN  IF filename /= ""
                 THEN ReplaceWildcardExt(r2, BaseNameOf(filename) \o TargetExtOf(target))
                 ELSE r2
        ELSE r2

\* applyMapping with the file name in the place of the suffix after the prefix
applyMappingFileName(sourcePath, pattern, target, featureName) ==
    LET normalizedPath == NormalizePath(sourcePath)
        r1 == ReplaceAll(target, "{feature}", featureName)
        r2 == IF EndsWith(pattern, "/*") /\ Includes(target, "*")
              THEN ReplaceFirst(r1, "*", LastSegment(normalizedPath))
              ELSE r1
        r3 == IF Includes(target, "*.")
              THEN LET filename == LastSegment(sourcePath)
                   IN  IF filename /= ""
                       THEN ReplaceWildcardExt(r2, BaseNameOf(filename) \o TargetExtOf(target))
                       ELSE r2
              ELSE r2
    IN  IF Includes(pattern, "*") /\ ~EndsWith(pattern, "/*") /\ Includes(target, "*")
        THEN sourcePath
        ELSE r3

\* BaseInfraBuilder.applyMapping(sourcePath, pattern, target, featureName)
applyMapping(sourcePath, pattern, target, featureName) ==
    LET normalizedPath == NormalizePath(sourcePath)
        r1 == ReplaceAll(target, "{feature}", featureName)
        r2 == IF EndsWith(pattern, "/*") /\ Includes(target, "*")
              THEN LET prefix == SliceEnd(pattern, 2)
                       suffix == SliceFrom(normalizedPath, Len(prefix) + 1)
                   IN  ReplaceFirst(r1, "*", suffix)
              ELSE r1
        r3 == IF Includes(target, "*.")
              THEN LET filename == LastSegment(sourcePath)
                   IN  IF filename /= ""
                       THEN ReplaceWildcardExt(r2, BaseNameOf(filename) \o TargetExtOf(target))
                       ELSE r2
              ELSE r2
    IN  IF Includes(pattern, "*") /\ ~EndsWith(pattern, "/*") /\ Includes(target, "*")
        THEN sourcePath
        ELSE r3

\* BaseInfraBuilder.detectFramework(config); an empty framework list makes
\* frameworks[0] undefined, which as a property key reads "undefined"
detectFramework(cfg) ==
    LET frameworks == IF IsPresent(FrameworkOf(cfg)) THEN Val(FrameworkOf(cfg))
                      ELSE <<"nextjs">>
    IN  IF frameworks = <<>> THEN "undefined"
        ELSE IF frameworks[1] = "*" THEN "nextjs"
        ELSE frameworks[1]

\* config?.targetMappings?.[framework] || this.defaultTargetMappings
\* (targetMappings is a function from framework keys to tables)
MappingsFor(b, cfg) ==
    LET framework == detectFramework(cfg)
    IN  IF IsPresent(cfg.targetMappings) /\ framework \in DOMAIN Val(cfg.targetMappings)
        THEN Val(cfg.targetMappings)[framework]
        ELSE defaultTargetMappings(b)

\* ResolveFrom with the last matching entry winning
ResolveFromLastMatch(mappings, i, path, featureName) ==
    LET later == {j \in i..Len(mappings) : matchesPattern(path, mappings[j][1])}
    IN  IF later = {} THEN "lib/server/" \o featureName \o "/" \o path
        ELSE LET j == CHOOSE k \in later : \A m \in later : m <= k
             IN  applyMapping(path, mappings[j][1], mappings[j][2], featureName)

\* the for loop of getTargetPath from entry i on
RECURSIVE ResolveFrom(_, _, _, _)
ResolveFrom(mappings, i, path, featureName) ==
    IF i > Len(mappings) THEN "lib/server/" \o featureName \o "/" \o path
    ELSE IF matchesPattern(path, mappings[i][1])
         THEN applyMapping(path, mappings[i][1], mappings[i][2], featureName)
         ELSE ResolveFrom(mappings, i + 1, path, featureName)

\* BaseInfraBuilder.getTargetPath(filePath, sourceDir, registryName, config),
\* given relativePath = relative(sourceDir, filePath)
getTargetPath(b, path, cfg) ==
    ResolveFrom(MappingsFor(b, cfg), 1, path, getFeatureName(b))

-----------------------------------------------------------------------------
(* Outcomes of an operation                                                *)

\* no build run in progress
NoRun ==
    /\ registryUrl = "https://r.example"
    /\ builderModules = <<>>
    /\ infraRoot = [exists |-> FALSE, entries |-> <<>>]
    /\ infraDirs = <<>>
    /\ outputDir = <<>>
    /\ idx = 0
    /\ log = <<>>

NoRet == [kind |-> "none"]

Return(v) == [kind |-> "return", value |-> v]

Throw(m) == [kind |-> "throw", message |-> m]

-----------------------------------------------------------------------------
(* Path resolution: getTargetPath applied to one file of one feature       *)

\* longest override table drawn
MaxTableLen == 2

AllBuilders == {AuthBuilder, I18nBuilder, PaymentBuilder, TanStackStartBuilder, ViteBuilder}

BaseNames == {"Form", "form", "otp.input"}

Extensions == {".ts", ".tsx"}

\* relative paths of feature files
Paths ==
    {"api/login.ts", "api/x.ts", "api/auth/verify/route.ts", "app/login/page.tsx",
     "server/session.ts", "server/a/b.ts", "client/hooks.ts", "emails/otp.tsx",
     "actions/login.ts", "locales/en.ts", "routes/login.tsx", "constants/auth.ts",
     "db.ts", "mail.ts", "rate-limit.ts", "middleware.ts", "vite.config.ts",
     "types.ts", "schemas/foo.ts", "schemas/drizzle.schema.ts", "schemas/prisma.schema",
     ".env.example.drizzle", ".env.example.prisma", "components/ui/Form.ts"}
    \cup {"components/" \o b \o e : b \in BaseNames, e \in Extensions}

\* entries a descriptor's targetMappings table is made of
OverrideEntries ==
    { <<"api/*", "A/*">>,
      <<"*", "B/*">>,
      <<"components/*", "components/*.tsx">>,
      <<"server/*", "lib/server/{feature}/*">> }

\* tables of at most n entries with pairwise distinct patterns (the keys of an object)
TablesUpTo(n) ==
    UNION { {t \in [1..k -> OverrideEntries] :
                \A i, j \in 1..k : i /= j => t[i][1] /= t[j][1]} : k \in 0..n }

\* capabilities.framework values drawn for path resolution
PathFrameworks ==
    {Absent, Some(<<>>), Some(<<"nextjs">>), Some(<<"*">>), Some(<<"vite">>),
     Some(<<"vite", "nextjs">>)}

\* targetMappings values drawn for path resolution
PathTargetMappings ==
    {Absent} \cup {Some(k :> t) : k \in {"nextjs", "vite"}, t \in TablesUpTo(MaxTableLen)}

PathConfigs ==
    {Descriptor(Some("auth-otp-shared"), Some("registry:lib"), Some("OTP"), Some("OTP auth"),
                Absent,
                IF IsPresent(fw) THEN Some(Capabilities(Absent, fw)) ELSE Absent,
                tm) : fw \in PathFrameworks, tm \in PathTargetMappings}

InitPath ==
    /\ pc = "getTargetPath"
    /\ config \in PathConfigs
    /\ builder \in AllBuilders
    /\ relativePath \in Paths
    /\ builders = <<>>
    /\ ourRegistryNames = {}
    /\ ret = NoRet
    /\ NoRun

\* builder.getTargetPath(filePath, sourceDir, config.name, config)
GetTargetPath ==
    /\ pc = "getTargetPath"
    /\ ret' = Return(getTargetPath(builder, relativePath, config))
    /\ pc' = "done"
    /\ UNCHANGED <<config, builders, builder, relativePath, ourRegistryNames>>
    /\ UNCHANGED runVars

NextPath == GetTargetPath

SpecPath == InitPath /\ [][NextPath]_vars

\* the table getTargetPath iterates
Table == MappingsFor(builder, config)

\* indices of the entries of the table whose pattern matches the path
Matching == {i \in 1..Len(Table) : matchesPattern(relativePath, Table[i][1])}

\* the matching entry declared first
FirstMatching == CHOOSE i \in Matching : \A j \in Matching : i <= j

\* the descriptor supplies the table in use
UsesOverride ==
    /\ IsPresent(config.targetMappings)
    /\ detectFramework(config) \in DOMAIN Val(config.targetMappings)

PathDone == pc = "done" /\ ret.kind = "return"

\* C1: the target is resolved with the first entry, in declaration order,
\* whose pattern matches the path, never with a later one; with the table
\* [("api/*","A/*"), ("*","B/*")] the path api/x.ts resolves through the A rule.
C1_FirstMatchWins ==
    PathDone =>
        /\ Matching /= {} =>
              ret.value = applyMapping(relativePath, Table[FirstMatching][1],
                                       Table[FirstMatching][2], getFeatureName(builder))
        /\ (Table = << <<"api/*", "A/*">>, <<"*", "B/*">> >> /\ relativePath = "api/x.ts")
              => ret.value = "A/x.ts"

\* C1 witness: api/x.ts resolved through the A rule although "*" matches too
C1_Witness ==
    /\ PathDone
    /\ Table = << <<"api/*", "A/*">>, <<"*", "B/*">> >>
    /\ relativePath = "api/x.ts"
    /\ Matching = {1, 2}
    /\ ret.value = "A/x.ts"

\* the winning entry is a prefix wildcard whose template ends in "*" and an extension
ExtensionRewriteCase ==
    /\ Matching /= {}
    /\ EndsWith(Table[FirstMatching][1], "/*")
    /\ TailMatch(Table[FirstMatching][2], "*.", "/") /= 0

\* C2: with a prefix-wildcard pattern and a template whose wildcard is followed
\* by an extension, the target is the template with the wildcard replaced by the
\* source file's base name without its extension, followed by the template's
\* extension (components/Form.ts -> components/Form.tsx).
C2_ExtensionRewrite ==
    (PathDone /\ ExtensionRewriteCase) =>
        LET template == ReplaceAll(Table[FirstMatching][2], "{feature}", getFeatureName(builder))
            star == TailMatch(template, "*.", "/")
        IN  ret.value = SubSeq(template, 1, star - 1)
                          \o BaseNameOf(LastSegment(relativePath))
                          \o SubSeq(template, star + 1, Len(template))

\* the path reaches the final catch-all entry of the builder's default table
CatchAllCase ==
    /\ ~UsesOverride
    /\ Matching /= {}
    /\ FirstMatching = Len(Table)
    /\ Table[FirstMatching][1] = "*"

\* C3: with a default table, a path that matches no entry before the final "*"
\* resolves to the catch-all template with {feature} replaced by the feature
\* name and "*" by the relative path (lib/server/{feature}/<path> for the base table).
C3_CatchAllFeatureLib ==
    (PathDone /\ CatchAllCase) =>
        ret.value = ReplaceFirst(ReplaceAll(Table[FirstMatching][2], "{feature}",
                                            getFeatureName(builder)),
                                 "*", relativePath)

\* C4: with feature name "auth" and the base default table, api/login.ts,
\* components/form.tsx, server/session.ts and db.ts resolve to app/api/login.ts,
\* components/form.tsx, lib/server/auth/session.ts and lib/server/db.ts.
C4_EndToEnd ==
    (PathDone /\ builder = AuthBuilder /\ ~UsesOverride) =>
        /\ relativePath = "api/login.ts" => ret.value = "app/api/login.ts"
        /\ relativePath = "components/form.tsx" => ret.value = "components/form.tsx"
        /\ relativePath = "server/session.ts" => ret.value = "lib/server/auth/session.ts"
        /\ relativePath = "db.ts" => ret.value = "lib/server/db.ts"

\* C4 witness: server/session.ts has been placed in the auth library directory
C4_Witness ==
    /\ PathDone
    /\ builder = AuthBuilder
    /\ ~UsesOverride
    /\ relativePath = "server/session.ts"
    /\ ret.value = "lib/server/auth/session.ts"

-----------------------------------------------------------------------------
(* validateConfig                                                          *)

INFRA_DIR == "src/registry/infra"

\* join(INFRA_DIR, dirName, "config.json")
ConfigPathOf(dirName) == INFRA_DIR \o "/" \o dirName \o "/config.json"

\* the OrmType union of shared.ts
OrmType == {"prisma", "drizzle", "typeorm", "none", "*"}

\* the FrameworkType union of shared.ts
FrameworkType == {"nextjs", "vite", "tanstack-start", "remix", "astro", "*"}

required == <<"name", "type", "title", "description">>

validOrms == <<"prisma", "drizzle", "typeorm", "none", "*">>

validFrameworks == <<"nextjs", "vite", "remix", "astro", "*">>

\* !config[field]: the property is absent or the empty string
Falsy(o) == ~IsPresent(o) \/ Val(o) = ""

\* missingFields stopping at the first missing field
missingFieldsFirstOnly(cfg) ==
    LET all == SelectSeq(required, LAMBDA field : Falsy(cfg[field]))
    IN  IF all = <<>> THEN <<>> ELSE <<all[1]>>

\* required.filter((field) => !config[field])
missingFields(cfg) == SelectSeq(required, LAMBDA field : Falsy(cfg[field]))

\* validateConfig(config, configPath): returns, or throws the first Error met
validateConfig(cfg, configPath) ==
    LET missing == missingFields(cfg)
        caps == Val(cfg.capabilities)
        invalidOrm == SelectSeq(Val(caps.orm), LAMBDA orm : ~ArrIncludes(validOrms, orm))
        invalidFw == SelectSeq(Val(caps.framework), LAMBDA fw : ~ArrIncludes(validFrameworks, fw))
    IN  IF Len(missing) > 0
        THEN Throw("Invalid config.json at " \o configPath
                      \o ": missing required fields: " \o Join(missing, ", "))
        ELSE IF ~IsPresent(cfg.capabilities) THEN Return("undefined")
        ELSE IF IsPresent(caps.orm) /\ Len(invalidOrm) > 0
             THEN Throw("Invalid ORM types in " \o configPath \o ": "
                           \o Join(invalidOrm, ", ") \o ". "
                           \o "Valid: " \o Join(validOrms, ", "))
        ELSE IF IsPresent(caps.framework) /\ Len(invalidFw) > 0
             THEN Throw("Invalid framework types in " \o configPath \o ": "
                           \o Join(invalidFw, ", ") \o ". "
                           \o "Valid: " \o Join(validFrameworks, ", "))
        ELSE Return("undefined")

\* longest capabilities.orm / capabilities.framework list drawn
MaxCaps == 2

SeqsUpTo(S, n) == UNION {[1..k -> S] : k \in 0..n}

\* capabilities.orm values drawn: the OrmType values and two others
OrmValues == OrmType \cup {"mongodb", "sqlite"}

\* capabilities.framework values drawn: the FrameworkType values and two others
FrameworkValues == FrameworkType \cup {"sveltekit", "express"}

\* descriptors with any of the required fields absent or empty
FieldConfigs ==
    {Descriptor(n, ty, ti, d, Absent, c, Absent) :
        n \in {Absent, Some(""), Some("auth-otp-shared")},
        ty \in {Absent, Some(""), Some("registry:lib")},
        ti \in {Absent, Some(""), Some("OTP")},
        d \in {Absent, Some(""), Some("OTP auth")},
        c \in {Absent, Some(Capabilities(Some(<<"mongodb">>), Some(<<"vite">>)))}}

\* complete descriptors with any capabilities
CapabilityConfigs ==
    {Descriptor(Some("auth-otp-shared"), Some("registry:lib"), Some("OTP"), Some("OTP auth"),
                Absent, Some(Capabilities(orm, fw)), Absent) :
        orm \in {Absent} \cup {Some(l) : l \in SeqsUpTo(OrmValues, MaxCaps)},
        fw \in {Absent} \cup {Some(l) : l \in SeqsUpTo(FrameworkValues, MaxCaps)}}

InitValidate ==
    /\ pc = "validateConfig"
    /\ config \in FieldConfigs \cup CapabilityConfigs
    /\ builder = AuthBuilder
    /\ relativePath = ""
    /\ builders = <<>>
    /\ ourRegistryNames = {}
    /\ ret = NoRet
    /\ NoRun

\* validateConfig(config, configPath)
ValidateConfig ==
    /\ pc = "validateConfig"
    /\ ret' = validateConfig(config, ConfigPathOf("feature"))
    /\ pc' = "done"
    /\ UNCHANGED <<config, builders, builder, relativePath, ourRegistryNames>>
    /\ UNCHANGED runVars

NextValidate == ValidateConfig

SpecValidate == InitValidate /\ [][NextValidate]_vars

\* v is one of the ", "-separated items of list
Listed(v, list) ==
    \/ list = v
    \/ StartsWith(list, v \o ", ")
    \/ EndsWith(list, ", " \o v)
    \/ Includes(list, ", " \o v \o ", ")

\* the text of s after the first occurrence of mark
After(s, mark) == SliceFrom(s, IndexOf(s, mark) + Len(mark) - 1)

\* the text of s before the first occurrence of mark
Before(s, mark) == SubSeq(s, 1, IndexOf(s, mark) - 1)

MissingMark == ": missing required fields: "

\* the required fields the descriptor lacks
MissingFields == {f \in {"name", "type", "title", "description"} : Falsy(config[f])}

IsMissingFieldError(r) == r.kind = "throw" /\ Includes(r.message, MissingMark)

\* C6: validateConfig raises one error naming every missing required field and
\* no other field when some field is absent or empty, and no missing-field
\* error when none is.
C6_MissingFieldsAggregated ==
    pc = "done" =>
        IF MissingFields /= {}
        THEN /\ IsMissingFieldError(ret)
             /\ \A f \in {"name", "type", "title", "description"} :
                    Listed(f, After(ret.message, MissingMark)) <=> f \in MissingFields
        ELSE ~IsMissingFieldError(ret)

\* C6 witness: title and description are missing and one error names both
C6_Witness ==
    /\ pc = "done"
    /\ MissingFields = {"title", "description"}
    /\ IsMissingFieldError(ret)
    /\ After(ret.message, MissingMark) = "title, description"

\* the declared capabilities.orm values
DeclaredOrms ==
    IF IsPresent(config.capabilities) /\ IsPresent(Val(config.capabilities).orm)
    THEN {Val(Val(config.capabilities).orm)[i] : i \in 1..Len(Val(Val(config.capabilities).orm))}
    ELSE {}

\* the declared capabilities.framework values
DeclaredFrameworks ==
    IF IsPresent(FrameworkOf(config))
    THEN {Val(FrameworkOf(config))[i] : i \in 1..Len(Val(FrameworkOf(config)))}
    ELSE {}

\* C7: a descriptor with all required fields is accepted exactly when every
\* declared orm value is in {prisma, drizzle, typeorm, none, *} and every
\* declared framework value is in {nextjs, vite, tanstack-start, remix, astro, *}.
C7_AcceptsExactlyEnumerations ==
    (pc = "done" /\ MissingFields = {}) =>
        (ret.kind = "return" <=>
            (DeclaredOrms \subseteq OrmType /\ DeclaredFrameworks \subseteq FrameworkType))

\* the list of invalid values of a capability error message
InvalidListOf(message) ==
    Before(After(message, ConfigPathOf("feature") \o ": "), ". Valid: ")

\* C8: when capabilities hold invalid values, one error lists every invalid
\* value found, the invalid orm values and the invalid framework values alike.
C8_AllInvalidValuesListed ==
    (pc = "done" /\ MissingFields = {}
        /\ (DeclaredOrms \ OrmType) \cup (DeclaredFrameworks \ FrameworkType) /= {}) =>
        /\ ret.kind = "throw"
        /\ \A v \in (DeclaredOrms \ OrmType) \cup (DeclaredFrameworks \ FrameworkType) :
              Listed(v, InvalidListOf(ret.message))

-----------------------------------------------------------------------------
(* Builder selection: getBuilder                                           *)

\* FindBuilderFrom with the last accepting builder winning
FindBuilderFromLast(bs, i, registryName, cfg) ==
    LET acc == {j \in i..Len(bs) : canHandle(bs[j], registryName, cfg)}
    IN  IF acc = {} THEN Absent
        ELSE Some(bs[CHOOSE j \in acc : \A k \in acc : k <= j])

\* builders.find((b) => b.canHandle(registryName, config)) from index i on;
\* Absent when no builder accepts
RECURSIVE FindBuilderFrom(_, _, _, _)
FindBuilderFrom(bs, i, registryName, cfg) ==
    IF i > Len(bs) THEN Absent
    ELSE IF canHandle(bs[i], registryName, cfg) THEN Some(bs[i])
    ELSE FindBuilderFrom(bs, i + 1, registryName, cfg)

\* getBuilder falling back to a default builder when none accepts
getBuilderWithDefault(registryName, cfg, bs) ==
    LET found == FindBuilderFrom(bs, 1, registryName, cfg)
    IN  IF ~IsPresent(found) THEN Return(AuthBuilder) ELSE Return(Val(found))

\* getBuilder(registryName, config, builders)
getBuilder(registryName, cfg, bs) ==
    LET found == FindBuilderFrom(bs, 1, registryName, cfg)
    IN  IF ~IsPresent(found)
        THEN Throw("No builder found for registry \"" \o registryName \o "\". "
                      \o "Available builders: " \o Join(bs, ", "))
        ELSE Return(Val(found))

\* lists of distinct builders, in any order
BuilderLists ==
    UNION { {l \in [1..k -> AllBuilders] : \A i, j \in 1..k : i /= j => l[i] /= l[j]} :
            k \in 0..Cardinality(AllBuilders) }

\* descriptor names drawn for selection
SelectNames ==
    {"auth-otp-shared", "auth-otp-vite-prisma", "otp-tanstack-shared", "payment-stripe-vite-shared",
     "i18n", "otp", "subscription", "rate-limiter"}

\* capabilities.framework values drawn for selection
SelectFrameworks ==
    {Absent, Some(<<"nextjs">>), Some(<<"vite">>), Some(<<"tanstack-start">>),
     Some(<<"vite", "tanstack-start">>), Some(<<"*">>)}

SelectConfigs ==
    {Descriptor(Some(n), Some("registry:lib"), Some("T"), Some("D"), Absent,
                IF IsPresent(fw) THEN Some(Capabilities(Absent, fw)) ELSE Absent,
                Absent) : n \in SelectNames, fw \in SelectFrameworks}

InitSelect ==
    /\ pc = "getBuilder"
    /\ config \in SelectConfigs
    /\ builders \in BuilderLists
    /\ builder = AuthBuilder
    /\ relativePath = ""
    /\ ourRegistryNames = {}
    /\ ret = NoRet
    /\ NoRun

\* getBuilder(config.name, config, builders)
GetBuilder ==
    /\ pc = "getBuilder"
    /\ ret' = getBuilder(Val(config.name), config, builders)
    /\ pc' = "done"
    /\ UNCHANGED <<config, builders, builder, relativePath, ourRegistryNames>>
    /\ UNCHANGED runVars

NextSelect == GetBuilder

SpecSelect == InitSelect /\ [][NextSelect]_vars

\* positions of the builders that accept the descriptor
Accepting == {i \in 1..Len(builders) : canHandle(builders[i], Val(config.name), config)}

\* C9: getBuilder returns the first builder in list order whose canHandle is
\* true; a later builder is never returned when an earlier one accepts.
C9_FirstAcceptingBuilder ==
    (pc = "done" /\ Accepting /= {}) =>
        /\ ret.kind = "return"
        /\ \E i \in Accepting :
              /\ builders[i] = ret.value
              /\ \A j \in Accepting : i <= j

\* C9 witness: two builders accept and the earlier one was returned
C9_Witness ==
    /\ pc = "done"
    /\ Cardinality(Accepting) >= 2
    /\ ret.kind = "return"
    /\ \E i, j \in Accepting : i < j /\ ret.value = builders[i] /\ ret.value /= builders[j]

-----------------------------------------------------------------------------
(* Feature directories, the file walk and generateRegistry                 *)

\* a config.json file: malformed text, or the JSON text of a descriptor
JsonFile(malformed, value) == [malformed |-> malformed, value |-> value]

\* an entry of the infra directory: a feature directory holds an optional
\* config.json and its other regular files, in the order the walk meets them
DirEntry(dirName, isDirectory, configJson, files) ==
    [dirName |-> dirName, isDirectory |-> isDirectory, configJson |-> configJson,
     files |-> files]

\* a regular file of a feature directory, by its path relative to the directory
SourceFile(path, content) == [path |-> path, content |-> content]

\* JSON.parse(readFileSync(configPath, "utf-8"))
parseConfig(file) ==
    IF file.malformed THEN Throw("SyntaxError: Unexpected token in JSON")
    ELSE Return(file.value)

\* s.lastIndexOf(ch) + 1
LastIndexOf(s, ch) ==
    LET hits == {i \in 1..Len(s) : SubSeq(s, i, i) = ch}
    IN  IF hits = {} THEN 0 ELSE CHOOSE i \in hits : \A j \in hits : j <= i

\* extname(item): from the last "." of the name on, "" when there is no "."
\* or the only "." starts the name
extname(item) ==
    LET i == LastIndexOf(item, ".")
    IN  IF i <= 1 THEN "" ELSE SubSeq(item, i, Len(item))

\* the test getAllRegistryFiles applies to a regular file named item
IsRegistryFile(item) ==
    IF StartsWith(item, ".env.example.") THEN TRUE
    ELSE /\ extname(item) \in {".ts", ".tsx"}
         /\ item /= "index.ts"
         /\ ~Includes(item, "schema")

\* getAllRegistryFiles with the test applied to the relative path
getAllRegistryFilesByPath(files) ==
    SelectSeq(files, LAMBDA f : IsRegistryFile(f.path))

\* getAllRegistryFiles(dir): the files of the walk that pass the test
getAllRegistryFiles(files) ==
    SelectSeq(files, LAMBDA f : IsRegistryFile(LastSegment(f.path)))

\* getFileType without the emails/ test
getFileTypeNoEmails(path) ==
    IF StartsWith(path, "components/") THEN "registry:block"
    ELSE IF StartsWith(path, "app/") THEN "registry:page"
    ELSE "registry:lib"

\* getFileType(filePath, sourceDir), given the relative path
getFileType(path) ==
    IF StartsWith(path, "components/") \/ StartsWith(path, "emails/") THEN "registry:block"
    ELSE IF StartsWith(path, "app/") THEN "registry:page"
    ELSE "registry:lib"

\* toRegistryUrl without the .json suffix
toRegistryUrlNoSuffix(name, registryBaseUrl) == registryBaseUrl \o "/" \o name

\* toRegistryUrl(name, registryBaseUrl)
toRegistryUrl(name, registryBaseUrl) == registryBaseUrl \o "/" \o name \o ".json"

\* the callback with every name that is not a URL linked
linkDependencyEveryName(dep, names, url) ==
    IF StartsWith(dep, "http://") \/ StartsWith(dep, "https://") THEN dep
    ELSE toRegistryUrl(dep, url)

\* the callback of config.registryDependencies.map
linkDependency(dep, names, url) ==
    IF StartsWith(dep, "http://") \/ StartsWith(dep, "https://") THEN dep
    ELSE IF dep \in names THEN toRegistryUrl(dep, url)
    ELSE dep

\* the registryDependencies of the item: set only for a non-empty list
linkRegistryDependencies(cfg, names, url) ==
    IF IsPresent(cfg.registryDependencies) /\ Len(Val(cfg.registryDependencies)) > 0
    THEN Some([i \in 1..Len(Val(cfg.registryDependencies)) |->
                  linkDependency(Val(cfg.registryDependencies)[i], names, url)])
    ELSE Absent

\* the RegistryFile of one walked file
registryFile(f, dirName, b, cfg) ==
    [path |-> INFRA_DIR \o "/" \o dirName \o "/" \o f.path,
     content |-> f.content,
     type |-> getFileType(f.path),
     target |-> getTargetPath(b, f.path, cfg)]

\* assembleItem with config.dependencies in the place of config.devDependencies
assembleItemDevFromDeps(dir, cfg, b, names, url) ==
    LET allFiles == getAllRegistryFiles(dir.files)
    IN  [schema |-> "https://ui.shadcn.com/schema/registry-item.json",
         name |-> Val(cfg.name),
         type |-> "registry:lib",
         title |-> Val(cfg.title),
         description |-> Val(cfg.description),
         files |-> [i \in 1..Len(allFiles) |-> registryFile(allFiles[i], dir.dirName, b, cfg)],
         dependencies |-> cfg.dependencies,
         devDependencies |-> cfg.dependencies,
         registryDependencies |-> linkRegistryDependencies(cfg, names, url)]

\* the RegistryItem generateRegistry assembles once the builder is known
assembleItem(dir, cfg, b, names, url) ==
    LET allFiles == getAllRegistryFiles(dir.files)
    IN  [schema |-> "https://ui.shadcn.com/schema/registry-item.json",
         name |-> Val(cfg.name),
         type |-> "registry:lib",
         title |-> Val(cfg.title),
         description |-> Val(cfg.description),
         files |-> [i \in 1..Len(allFiles) |-> registryFile(allFiles[i], dir.dirName, b, cfg)],
         dependencies |-> cfg.dependencies,
         devDependencies |-> cfg.devDependencies,
         registryDependencies |-> linkRegistryDependencies(cfg, names, url)]

\* generateRegistry(configPath, sourceDir, ourRegistryNames, builders):
\* the item, or the first Error thrown on the way
generateRegistry(dir, names, bs, url) ==
    LET parsed == parseConfig(Val(dir.configJson))
        cfg == parsed.value
        valid == validateConfig(cfg, ConfigPathOf(dir.dirName))
        chosen == getBuilder(Val(cfg.name), cfg, bs)
    IN  IF parsed.kind = "throw" THEN parsed
        ELSE IF valid.kind = "throw" THEN valid
        ELSE IF chosen.kind = "throw" THEN chosen
        ELSE Return(assembleItem(dir, cfg, chosen.value, names, url))

-----------------------------------------------------------------------------
(* Dependency linking: generateRegistry applied to one feature directory    *)

\* longest registryDependencies list drawn
MaxDeps == 3

\* registryDependencies entries drawn
DepValues == {"auth-otp-shared", "https://x/y.json", "http://x/y.json", "external-widget"}

\* names pass 1 may have collected
LinkNames == {"auth-otp-shared", "i18n", "https://x/y.json"}

BaseUrls == {"https://r.example", "http://localhost:3000/r"}

\* the builders discoverBuilders registers from the five builder modules
DiscoveredBuilders ==
    <<AuthBuilder, I18nBuilder, PaymentBuilder, TanStackStartBuilder, ViteBuilder>>

\* files of a small feature directory
SampleFiles ==
    << SourceFile("api/login.ts", "export const POST = 1"),
       SourceFile("components/form.tsx", "export function Form() {}"),
       SourceFile("index.ts", "export {}"),
       SourceFile("config.json", "{}") >>

LinkConfigs ==
    {Descriptor(Some("auth-otp-prisma"), Some("registry:lib"), Some("OTP"), Some("OTP auth"),
                deps, Absent, Absent) :
        deps \in {Absent} \cup {Some(l) : l \in SeqsUpTo(DepValues, MaxDeps)}}

InitLink ==
    /\ pc = "generateRegistry"
    /\ config \in LinkConfigs
    /\ ourRegistryNames \in SUBSET LinkNames
    /\ registryUrl \in BaseUrls
    /\ builders = DiscoveredBuilders
    /\ infraDirs = <<DirEntry("auth-otp-prisma", TRUE, Some(JsonFile(FALSE, config)), SampleFiles)>>
    /\ idx = 1
    /\ builder = AuthBuilder
    /\ relativePath = ""
    /\ ret = NoRet
    /\ builderModules = <<>>
    /\ infraRoot = [exists |-> TRUE, entries |-> infraDirs]
    /\ outputDir = <<>>
    /\ log = <<>>

\* generateRegistry(configPath, sourceDir, ourRegistryNames, builders)
GenerateRegistry ==
    /\ pc = "generateRegistry"
    /\ ret' = generateRegistry(infraDirs[idx], ourRegistryNames, builders, registryUrl)
    /\ pc' = "done"
    /\ UNCHANGED <<config, builders, builder, relativePath, ourRegistryNames>>
    /\ UNCHANGED runVars

NextLink == GenerateRegistry

SpecLink == InitLink /\ [][NextLink]_vars

\* the entries of an optional list
Entries(o) == IF IsPresent(o) THEN Val(o) ELSE <<>>

\* C5: the manifest's registryDependencies has the length and order of the
\* descriptor's; entry i is the input unchanged if it starts with http:// or
\* https://, else {baseUrl}/{name}.json if the input is an internal name, else
\* the input unchanged.
C5_DependencyLinking ==
    (pc = "done" /\ ret.kind = "return") =>
        LET in == Entries(config.registryDependencies)
            out == Entries(ret.value.registryDependencies)
        IN  /\ Len(out) = Len(in)
            /\ \A i \in 1..Len(in) :
                  out[i] = IF StartsWith(in[i], "http://") \/ StartsWith(in[i], "https://")
                           THEN in[i]
                           ELSE IF in[i] \in ourRegistryNames
                                THEN registryUrl \o "/" \o in[i] \o ".json"
                                ELSE in[i]

\* C5 witness: the internal name is linked, the URL and the external name are kept
C5_Witness ==
    /\ pc = "done"
    /\ ret.kind = "return"
    /\ ourRegistryNames = {"auth-otp-shared"}
    /\ registryUrl = "https://r.example"
    /\ Entries(config.registryDependencies)
          = <<"auth-otp-shared", "https://x/y.json", "external-widget">>
    /\ Entries(ret.value.registryDependencies)
          = <<"https://r.example/auth-otp-shared.json", "https://x/y.json", "external-widget">>

-----------------------------------------------------------------------------
(* The build run: discoverBuilders and main                                *)

\* a file of the builders/ directory: whether importing it throws, and the
\* names of the functions it exports
BuilderModule(file, importFails, exports) ==
    [file |-> file, importFails |-> importFails, exports |-> exports]

\* the filter discoverBuilders applies to the directory listing
IsBuilderFile(f) ==
    /\ EndsWith(f, ".ts")
    /\ f /= "shared.ts"
    /\ f /= "registry.ts"
    /\ f /= "base-builder.ts"

\* readdirSync(BUILDERS_DIR).filter(...)
builderFiles(listing) == SelectSeq(listing, LAMBDA m : IsBuilderFile(m.file))

\* Object.values(module).find(exp => typeof exp === "function" && exp.name.endsWith("Builder"))
builderClassOf(m) ==
    LET classes == SelectSeq(m.exports, LAMBDA e : EndsWith(e, "Builder"))
    IN  IF classes = <<>> THEN Absent ELSE Some(classes[1])

\* the loop body of discoverBuilders with unshift in the place of push
registerModulePrepend(bs, m) ==
    IF ~m.importFails /\ IsPresent(builderClassOf(m))
    THEN <<Val(builderClassOf(m))>> \o bs
    ELSE bs

\* the loop body of discoverBuilders: the builder list after the import of m
registerModule(bs, m) ==
    IF ~m.importFails /\ IsPresent(builderClassOf(m))
    THEN Append(bs, Val(builderClassOf(m)))
    ELSE bs

\* a console line; the pictograph and the blanks that open a line are left out
Out(text) == [stream |-> "stdout", text |-> text]

Err(text) == [stream |-> "stderr", text |-> text]

\* `${n}` for a natural number
RECURSIVE NumStr(_)
NumStr(n) ==
    IF n < 10 THEN SubSeq("0123456789", n + 1, n + 1)
    ELSE NumStr(n \div 10) \o SubSeq("0123456789", (n % 10) + 1, (n % 10) + 1)

\* what the loop body of discoverBuilders writes to the console
registerLog(m) ==
    IF m.importFails THEN <<Err("Failed to load builder from " \o m.file \o ":")>>
    ELSE IF IsPresent(builderClassOf(m))
         THEN <<Out("Registered builder: " \o Val(builderClassOf(m)))>>
         ELSE <<>>

\* most builder modules whose import fails in one run
MaxFailedImports == 1

\* most entries of the infra directory
MaxDirs == 2

BuilderFileNames == {"auth.ts", "i18n.ts", "payment.ts", "tanstack-start.ts", "vite.ts"}

\* the builders/ directory, in listing order; the imports of the modules in failing throw
BuildersDir(failing) ==
    << BuilderModule("auth.ts", "auth.ts" \in failing, <<"AuthBuilder">>),
       BuilderModule("base-builder.ts", FALSE, <<"BaseInfraBuilder">>),
       BuilderModule("i18n.ts", "i18n.ts" \in failing, <<"I18nBuilder">>),
       BuilderModule("payment.ts", "payment.ts" \in failing, <<"PaymentBuilder">>),
       BuilderModule("registry.ts", FALSE, <<"discoverBuilders", "getBuilder">>),
       BuilderModule("shared.ts", FALSE, <<"getAllRegistryFiles", "getFileType">>),
       BuilderModule("tanstack-start.ts", "tanstack-start.ts" \in failing, <<"TanStackStartBuilder">>),
       BuilderModule("vite.ts", "vite.ts" \in failing, <<"ViteBuilder">>) >>

\* the listing in the opposite order
Reversed(listing) == [i \in 1..Len(listing) |-> listing[Len(listing) + 1 - i]]

\* listings of the builders/ directory: name order with some imports failing,
\* and the opposite order with every import succeeding
BuilderListings ==
    {BuildersDir(failing) : failing \in {F \in SUBSET BuilderFileNames :
                                            Cardinality(F) <= MaxFailedImports}}
        \cup {Reversed(BuildersDir({}))}

\* a complete descriptor
FeatureConfig(name, deps, framework) ==
    Descriptor(Some(name), Some("registry:lib"), Some("T " \o name), Some("D " \o name), deps,
               IF IsPresent(framework) THEN Some(Capabilities(Absent, framework)) ELSE Absent,
               Absent)

\* the files of a feature directory
FeatureFiles ==
    << SourceFile("api/login.ts", "export const POST = 1"),
       SourceFile("components/form.tsx", "export function Form() {}"),
       SourceFile("config.json", "{}"),
       SourceFile("index.ts", "export {}"),
       SourceFile("server/session.ts", "export const session = 1"),
       SourceFile("types.ts", "export type T = 1") >>

\* entries the infra directory may hold
InfraEntries ==
    { DirEntry("auth-otp-prisma", TRUE,
               Some(JsonFile(FALSE, FeatureConfig("auth-otp-prisma",
                                      Some(<<"auth-otp-shared", "button">>), Absent))),
               FeatureFiles),
      DirEntry("auth-otp-shared", TRUE,
               Some(JsonFile(FALSE, FeatureConfig("auth-otp-shared", Absent, Absent))),
               FeatureFiles),
      DirEntry("auth-otp-shared-copy", TRUE,
               Some(JsonFile(FALSE, FeatureConfig("auth-otp-shared", Absent, Absent))),
               <<SourceFile("db.ts", "export const db = 1")>>),
      DirEntry("auth-otp-vite-shared", TRUE,
               Some(JsonFile(FALSE, FeatureConfig("auth-otp-vite-shared",
                                      Some(<<"auth-otp-shared">>), Some(<<"vite">>)))),
               FeatureFiles),
      DirEntry("broken", TRUE, Some(JsonFile(TRUE, "{")), FeatureFiles),
      DirEntry("docs", TRUE, Absent, FeatureFiles),
      DirEntry("i18n", TRUE,
               Some(JsonFile(FALSE, Descriptor(Some("i18n"), Some("registry:lib"), Absent,
                                               Some("D i18n"), Absent, Absent, Absent))),
               FeatureFiles),
      DirEntry("rate-limiter", TRUE,
               Some(JsonFile(FALSE, FeatureConfig("rate-limiter", Absent, Absent))),
               FeatureFiles),
      DirEntry("README.md", FALSE, Absent, <<>>) }

\* listings of the infra directory: at most n entries with distinct names
InfraListings(n) ==
    UNION { {l \in [1..k -> InfraEntries] :
                \A i, j \in 1..k : i /= j => l[i].dirName /= l[j].dirName} : k \in 0..n }

InfraRoots ==
    {[exists |-> FALSE, entries |-> <<>>]}
        \cup {[exists |-> TRUE, entries |-> l] : l \in InfraListings(MaxDirs)}

NoConfig == Descriptor(Absent, Absent, Absent, Absent, Absent, Absent, Absent)

Init ==
    /\ pc = "main"
    /\ infraRoot \in InfraRoots
    /\ builderModules \in BuilderListings
    /\ registryUrl \in {"https://r.example"}
    /\ config = NoConfig
    /\ builders = <<>>
    /\ builder = AuthBuilder
    /\ relativePath = ""
    /\ ourRegistryNames = {}
    /\ ret = NoRet
    /\ infraDirs = <<>>
    /\ outputDir = <<>>
    /\ idx = 0
    /\ log = <<>>

\* main: existsSync(INFRA_DIR), then the call of discoverBuilders
MainStart ==
    /\ pc = "main"
    /\ IF ~infraRoot.exists
       THEN /\ pc' = "done"
            /\ ret' = Return("undefined")
            /\ idx' = idx
            /\ log' = log \o <<Out("Building infrastructure registry items..."),
                               Out("No infra directory found. Skipping infrastructure build.")>>
       ELSE /\ pc' = "discoverBuilders"
            /\ ret' = ret
            /\ idx' = 1
            /\ log' = log \o <<Out("Building infrastructure registry items..."),
                               Out("Discovering builders...")>>
    /\ UNCHANGED <<config, builders, builder, relativePath, ourRegistryNames,
                   registryUrl, builderModules, infraRoot, infraDirs, outputDir>>

\* discoverBuilders: one turn of the loop, the awaited import of one module
ImportBuilder ==
    /\ pc = "discoverBuilders"
    /\ idx <= Len(builderFiles(builderModules))
    /\ builders' = registerModule(builders, builderFiles(builderModules)[idx])
    /\ log' = log \o registerLog(builderFiles(builderModules)[idx])
    /\ idx' = idx + 1
    /\ UNCHANGED <<pc, config, builder, relativePath, ourRegistryNames, ret,
                   registryUrl, builderModules, infraRoot, infraDirs, outputDir>>

\* readdirSync(INFRA_DIR).filter(...): the directories that hold a config.json
listInfraDirs(root) ==
    SelectSeq(root.entries, LAMBDA e : e.isDirectory /\ IsPresent(e.configJson))

\* ListInfraDirs without the wait for the imports still to come
ListInfraDirsNoAwait ==
    /\ pc = "discoverBuilders"
    /\ infraDirs' = listInfraDirs(infraRoot)
    /\ IF Len(infraDirs') = 0
       THEN /\ pc' = "done"
            /\ ret' = Return("undefined")
            /\ log' = log \o <<Out("Found " \o NumStr(Len(builders)) \o " builders"),
                               Out("No infrastructure configs found (no config.json files).")>>
       ELSE /\ pc' = "pass1"
            /\ ret' = ret
            /\ log' = log \o <<Out("Found " \o NumStr(Len(builders)) \o " builders")>>
    /\ idx' = 1
    /\ ourRegistryNames' = {}
    /\ UNCHANGED <<config, builders, builder, relativePath,
                   registryUrl, builderModules, infraRoot, outputDir>>

\* main: discoverBuilders has returned; list the feature directories
ListInfraDirs ==
    /\ pc = "discoverBuilders"
    /\ idx > Len(builderFiles(builderModules))
    /\ infraDirs' = listInfraDirs(infraRoot)
    /\ IF Len(infraDirs') = 0
       THEN /\ pc' = "done"
            /\ ret' = Return("undefined")
            /\ log' = log \o <<Out("Found " \o NumStr(Len(builders)) \o " builders"),
                               Out("No infrastructure configs found (no config.json files).")>>
       ELSE /\ pc' = "pass1"
            /\ ret' = ret
            /\ log' = log \o <<Out("Found " \o NumStr(Len(builders)) \o " builders")>>
    /\ idx' = 1
    /\ ourRegistryNames' = {}
    /\ UNCHANGED <<config, builders, builder, relativePath,
                   registryUrl, builderModules, infraRoot, outputDir>>

\* a turn of the first pass that goes on with the next directory after an Error
Pass1SkipMalformed ==
    /\ pc = "pass1"
    /\ LET parsed == parseConfig(Val(infraDirs[idx].configJson))
       IN  /\ IF parsed.kind = "throw"
              THEN UNCHANGED <<config, ourRegistryNames>>
              ELSE /\ config' = parsed.value
                   /\ ourRegistryNames' =
                         IF IsPresent(parsed.value.name)
                         THEN ourRegistryNames \cup {Val(parsed.value.name)}
                         ELSE ourRegistryNames
           /\ ret' = ret
           /\ IF idx < Len(infraDirs)
              THEN pc' = pc /\ idx' = idx + 1
              ELSE pc' = "pass2" /\ idx' = 1
    /\ UNCHANGED <<builders, builder, relativePath,
                   registryUrl, builderModules, infraRoot, infraDirs, outputDir, log>>

\* first pass, one turn: parse the descriptor and collect its name; an Error
\* leaves main uncaught
Pass1 ==
    /\ pc = "pass1"
    /\ LET parsed == parseConfig(Val(infraDirs[idx].configJson))
       IN  IF parsed.kind = "throw"
           THEN /\ pc' = "done"
                /\ ret' = parsed
                /\ UNCHANGED <<config, ourRegistryNames, idx>>
           ELSE /\ config' = parsed.value
                /\ ourRegistryNames' =
                      IF IsPresent(parsed.value.name)
                      THEN ourRegistryNames \cup {Val(parsed.value.name)}
                      ELSE ourRegistryNames
                /\ ret' = ret
                /\ IF idx < Len(infraDirs)
                   THEN pc' = pc /\ idx' = idx + 1
                   ELSE pc' = "pass2" /\ idx' = 1
    /\ UNCHANGED <<builders, builder, relativePath,
                   registryUrl, builderModules, infraRoot, infraDirs, outputDir, log>>

\* writeRegistryItem that leaves a file that exists as it is
writeRegistryItemKeepFirst(dir, item) ==
    LET file == item.name \o ".json"
    IN  [f \in DOMAIN dir \cup {file} |-> IF f \in DOMAIN dir THEN dir[f] ELSE item]

\* writeRegistryItem with one output path for every item
writeRegistryItemFixedPath(dir, item) ==
    LET file == "registry-item.json"
    IN  [f \in DOMAIN dir \cup {file} |-> IF f = file THEN item ELSE dir[f]]

\* writeRegistryItem(item): the directory after the write of {name}.json
writeRegistryItem(dir, item) ==
    LET file == item.name \o ".json"
    IN  [f \in DOMAIN dir \cup {file} |-> IF f = file THEN item ELSE dir[f]]

\* the line writeRegistryItem writes to the console
generatedLine(item) ==
    Out("Generated " \o item.name \o ".json (" \o NumStr(Len(item.files)) \o " files)")

\* a turn of the second pass that goes on with the next directory after an Error
Pass2LogAndContinue ==
    /\ pc = "pass2"
    /\ LET dir == infraDirs[idx]
           r == generateRegistry(dir, ourRegistryNames, builders, registryUrl)
           parsed == parseConfig(Val(dir.configJson))
           last == idx >= Len(infraDirs)
       IN  /\ IF r.kind = "throw"
              THEN /\ log' = log \o <<Err("Failed to build " \o dir.dirName \o ": " \o r.message)>>
                   /\ UNCHANGED <<outputDir, builder>>
              ELSE /\ outputDir' = writeRegistryItem(outputDir, r.value)
                   /\ builder' = getBuilder(Val(parsed.value.name), parsed.value, builders).value
                   /\ log' = log \o <<generatedLine(r.value)>>
           /\ IF last
              THEN pc' = "done" /\ idx' = idx /\ ret' = Return("undefined")
              ELSE pc' = pc /\ idx' = idx + 1 /\ ret' = ret
           /\ config' = IF parsed.kind = "return" THEN parsed.value ELSE config
    /\ UNCHANGED <<builders, relativePath, ourRegistryNames,
                   registryUrl, builderModules, infraRoot, infraDirs>>

\* second pass, one turn: generateRegistry, then writeRegistryItem; an Error
\* is logged and thrown again, which ends main
Pass2 ==
    /\ pc = "pass2"
    /\ LET dir == infraDirs[idx]
           r == generateRegistry(dir, ourRegistryNames, builders, registryUrl)
           parsed == parseConfig(Val(dir.configJson))
       IN  /\ IF r.kind = "throw"
              THEN /\ pc' = "done"
                   /\ ret' = r
                   /\ log' = log \o <<Err("Failed to build " \o dir.dirName \o ": " \o r.message)>>
                   /\ UNCHANGED <<outputDir, idx, builder>>
              ELSE /\ outputDir' = writeRegistryItem(outputDir, r.value)
                   /\ builder' = getBuilder(Val(parsed.value.name), parsed.value, builders).value
                   /\ IF idx < Len(infraDirs)
                      THEN /\ pc' = pc /\ idx' = idx + 1 /\ ret' = ret
                           /\ log' = log \o <<generatedLine(r.value)>>
                      ELSE /\ pc' = "done" /\ idx' = idx /\ ret' = Return("undefined")
                           /\ log' = log \o <<generatedLine(r.value),
                                              Out("Done! Generated " \o NumStr(Len(infraDirs))
                                                      \o " infrastructure items.")>>
           /\ config' = IF parsed.kind = "return" THEN parsed.value ELSE config
    /\ UNCHANGED <<builders, relativePath, ourRegistryNames,
                   registryUrl, builderModules, infraRoot, infraDirs>>

Next ==
    \/ MainStart
    \/ ImportBuilder
    \/ ListInfraDirs
    \/ Pass1
    \/ Pass2

Spec == Init /\ [][Next]_vars

\* the descriptor of the directory pass 2 is at is complete and valid, and no
\* registered builder accepts it
NoBuilderAccepts ==
    /\ pc = "pass2"
    /\ parseConfig(Val(infraDirs[idx].configJson)).kind = "return"
    /\ LET cfg == parseConfig(Val(infraDirs[idx].configJson)).value
       IN  /\ validateConfig(cfg, ConfigPathOf(infraDirs[idx].dirName)).kind = "return"
           /\ \A i \in 1..Len(builders) : ~canHandle(builders[i], Val(cfg.name), cfg)

AvailableMark == "Available builders: "

\* C10: when no registered builder accepts a descriptor, selection raises an
\* error whose message lists the names of all registered builders, no builder
\* is used by default and no manifest is written for the feature.
C10_NoBuilderIsFatal ==
    [][NoBuilderAccepts =>
          /\ pc' = "done"
          /\ ret'.kind = "throw"
          /\ StartsWith(ret'.message, "No builder found for registry")
          /\ \A i \in 1..Len(builders) :
                Listed(builders[i], After(ret'.message, AvailableMark))
          /\ outputDir' = outputDir]_vars

\* C10 witness: the run has ended on the selection error of rate-limiter,
\* whose manifest does not exist
C10_Witness ==
    /\ pc = "done"
    /\ ret.kind = "throw"
    /\ StartsWith(ret.message, "No builder found for registry \"rate-limiter\"")
    /\ Len(builders) >= 4
    /\ "rate-limiter.json" \notin DOMAIN outputDir

-----------------------------------------------------------------------------
(* Selection in the build run                                              *)

\* pass 2 is at a directory whose descriptor parses and passes validateConfig
ValidAtPass2 ==
    /\ pc = "pass2"
    /\ parseConfig(Val(infraDirs[idx].configJson)).kind = "return"
    /\ validateConfig(parseConfig(Val(infraDirs[idx].configJson)).value,
                      ConfigPathOf(infraDirs[idx].dirName)).kind = "return"

\* the descriptor of the directory pass 2 is at
ConfigAtPass2 == parseConfig(Val(infraDirs[idx].configJson)).value

\* C11: with the builders registered in the order auth, i18n, payment,
\* tanstack-start, vite, a descriptor whose capabilities.framework is ["vite"]
\* (resp. ["tanstack-start"]) and whose name starts with "auth-" or "payment-"
\* is built by ViteBuilder (resp. TanStackStartBuilder), never by AuthBuilder
\* or PaymentBuilder.
C11_FrameworkBuildersFirst ==
    [][(/\ ValidAtPass2
        /\ builders = <<AuthBuilder, I18nBuilder, PaymentBuilder,
                        TanStackStartBuilder, ViteBuilder>>
        /\ \/ StartsWith(Val(ConfigAtPass2.name), "auth-")
           \/ StartsWith(Val(ConfigAtPass2.name), "payment-"))
          => /\ FrameworkOf(ConfigAtPass2) = Some(<<"vite">>) => builder' = ViteBuilder
             /\ FrameworkOf(ConfigAtPass2) = Some(<<"tanstack-start">>)
                   => builder' = TanStackStartBuilder]_vars

-----------------------------------------------------------------------------
(* Failure and success of the build run                                    *)

\* pass 2 is at a directory whose descriptor fails validation or finds no builder
FailsAtPass2 ==
    /\ pc = "pass2"
    /\ \/ parseConfig(Val(infraDirs[idx].configJson)).kind = "throw"
       \/ validateConfig(ConfigAtPass2, ConfigPathOf(infraDirs[idx].dirName)).kind = "throw"
       \/ NoBuilderAccepts

\* C12: when pass 2 fails on a feature, the step writes no manifest (none for
\* the feature, and the manifests written before it stay as they are), the
\* failure is logged with the directory name, and the run ends with the error;
\* nothing is written after the end.
C12_Pass2FailureEndsRun ==
    [][/\ FailsAtPass2 =>
            /\ outputDir' = outputDir
            /\ pc' = "done"
            /\ ret'.kind = "throw"
            /\ log' = Append(log, Err("Failed to build " \o infraDirs[idx].dirName
                                          \o ": " \o ret'.message))
       /\ pc = "done" => outputDir' = outputDir]_vars

\* C12 witness: the run has ended on the error of its second feature; the
\* manifest of the first is there, the manifest of the second is not
C12_Witness ==
    /\ pc = "done"
    /\ ret.kind = "throw"
    /\ Len(infraDirs) = 2
    /\ idx = 2
    /\ infraDirs[1].dirName = "auth-otp-shared"
    /\ infraDirs[2].dirName = "i18n"
    /\ DOMAIN outputDir = {"auth-otp-shared.json"}
    /\ outputDir["auth-otp-shared.json"].name = "auth-otp-shared"

\* the feature directories of the infra directory: the entries that are
\* directories and hold a config.json, in listing order
FeatureDirs ==
    SelectSeq(infraRoot.entries, LAMBDA e : e.isDirectory /\ e.configJson /= <<>>)

\* the name the descriptor of a feature directory declares
DeclaredName(e) == e.configJson[1].value.name[1]

\* the console lines of writeRegistryItem, in order
GeneratedLines == SelectSeq(log, LAMBDA l : StartsWith(l.text, "Generated "))

\* the run has returned from main without an Error
Succeeded == pc = "done" /\ ret.kind = "return"

\* C13: a run that ends successfully has written one manifest for every
\* discovered feature directory, in listing order and into {name}.json, and
\* the output directory holds these files and no other.
C13_OneManifestPerFeature ==
    Succeeded =>
        /\ Len(GeneratedLines) = Len(FeatureDirs)
        /\ \A i \in 1..Len(FeatureDirs) :
              /\ StartsWith(GeneratedLines[i].text,
                            "Generated " \o DeclaredName(FeatureDirs[i]) \o ".json (")
              /\ (DeclaredName(FeatureDirs[i]) \o ".json") \in DOMAIN outputDir
              /\ outputDir[DeclaredName(FeatureDirs[i]) \o ".json"].name
                    = DeclaredName(FeatureDirs[i])
        /\ DOMAIN outputDir
              = {DeclaredName(FeatureDirs[i]) \o ".json" : i \in 1..Len(FeatureDirs)}

\* C13 witness: a successful run over a feature directory and an entry that
\* is not one has written the one manifest
C13_Witness ==
    /\ Succeeded
    /\ Len(infraRoot.entries) = 2
    /\ infraRoot.entries[1].dirName = "docs"
    /\ infraRoot.entries[2].dirName = "auth-otp-prisma"
    /\ DOMAIN outputDir = {"auth-otp-prisma.json"}
    /\ Len(GeneratedLines) = 1

-----------------------------------------------------------------------------
(* One mapping entry: getTargetPath with a one-entry override table         *)

MappingPatterns == {"server/*", "components/*", "api/*", "db.ts", "*", ".env.example.*"}

MappingTemplates ==
    {"lib/server/{feature}/{feature}.ts", "lib/server/{feature}/*",
     "src/db/schema/{feature}.ts", "src/components/*.tsx", "app/api/*", "*", ".env.example"}

\* relative paths: those of Paths and two that start like a directory pattern
\* without being under the directory
MappingPaths == Paths \cup {"server.ts", "servers/a.ts"}

\* the builders: three feature names, three default tables
MappingBuilders ==
    {AuthBuilder, I18nBuilder, PaymentBuilder, TanStackStartBuilder, ViteBuilder}

\* descriptors whose targetMappings holds one entry for the framework in use,
\* and the descriptor without targetMappings, which leaves the default table
MappingConfigs ==
    {Descriptor(Some("auth-otp-shared"), Some("registry:lib"), Some("OTP"), Some("OTP auth"),
                Absent, Absent, Some("nextjs" :> <<<<p, t>>>>)) :
        p \in MappingPatterns, t \in MappingTemplates}
    \cup {Descriptor(Some("auth-otp-shared"), Some("registry:lib"), Some("OTP"),
                     Some("OTP auth"), Absent, Absent, Absent)}

InitMapping ==
    /\ pc = "getTargetPath"
    /\ config \in MappingConfigs
    /\ builder \in MappingBuilders
    /\ relativePath \in MappingPaths
    /\ builders = <<>>
    /\ ourRegistryNames = {}
    /\ ret = NoRet
    /\ NoRun

SpecMapping == InitMapping /\ [][NextPath]_vars

\* the pattern and the template of the entry that resolved the path
WinningPattern == Table[FirstMatching][1]

WinningTemplate == Table[FirstMatching][2]

\* C15: every occurrence of {feature} in the template is replaced by the
\* feature name: no placeholder is left in the target, and the template
\* lib/server/{feature}/{feature}.ts gives lib/server/auth/auth.ts for the
\* feature name auth.
C15_EveryFeaturePlaceholder ==
    (PathDone /\ Matching /= {}) =>
        LET f == getFeatureName(builder)
        IN  /\ ~Includes(ret.value, "{feature}")
            /\ WinningTemplate = "lib/server/{feature}/{feature}.ts"
                  => ret.value = "lib/server/" \o f \o "/" \o f \o ".ts"
            /\ WinningTemplate = "src/db/schema/{feature}.ts"
                  => ret.value = "src/db/schema/" \o f \o ".ts"

\* C15 witness: the template with two placeholders, resolved for auth
C15_Witness ==
    /\ PathDone
    /\ Matching /= {}
    /\ builder = AuthBuilder
    /\ relativePath = "db.ts"
    /\ WinningPattern = "db.ts"
    /\ WinningTemplate = "lib/server/{feature}/{feature}.ts"
    /\ ret.value = "lib/server/auth/auth.ts"

\* the text of the template with {feature} replaced and its first "*"
\* replaced by suffix
StarFilled(template, f, suffix) ==
    LET i == IndexOf(template, "*")
    IN  ReplaceAll(SubSeq(template, 1, i - 1), "{feature}", f) \o suffix
            \o ReplaceAll(SubSeq(template, i + 1, Len(template)), "{feature}", f)

\* C20: a pattern dir/* matches exactly the paths that start with dir/, and
\* with a template that holds a "*" the target is the template with the "*"
\* replaced by the whole of the path after dir/, nested directories included:
\* server/a/b.ts under server/* -> lib/server/{feature}/* gives
\* lib/server/{feature}/a/b.ts.
C20_PrefixWildcard ==
    /\ \A i \in 1..Len(Table) :
          EndsWith(Table[i][1], "/*") =>
              (i \in Matching
                  <=> StartsWith(relativePath,
                                 SubSeq(Table[i][1], 1, Len(Table[i][1]) - 1)))
    /\ (PathDone /\ Matching /= {}
            /\ EndsWith(WinningPattern, "/*") /\ Includes(WinningTemplate, "*"))
          => ret.value = StarFilled(WinningTemplate, getFeatureName(builder),
                                    SubSeq(relativePath, Len(WinningPattern),
                                           Len(relativePath)))

\* C20 witness: the nested path of the claim
C20_Witness ==
    /\ PathDone
    /\ Matching /= {}
    /\ builder = AuthBuilder
    /\ relativePath = "server/a/b.ts"
    /\ WinningPattern = "server/*"
    /\ WinningTemplate = "lib/server/{feature}/*"
    /\ ret.value = "lib/server/auth/a/b.ts"

-----------------------------------------------------------------------------
(* Parse failures and builder discovery in the build run                   *)

\* the run has ended on an Error while at a directory whose config.json is
\* malformed
EndedOnMalformedJson ==
    /\ pc = "done"
    /\ ret.kind = "throw"
    /\ idx \in 1..Len(infraDirs)
    /\ infraDirs[idx].configJson[1].malformed

\* C16: a descriptor file that holds malformed JSON ends the build of its
\* feature with an error, and the error report (the Error that leaves main or
\* a console line) holds the path of the descriptor file.
C16_MalformedJsonReportedWithPath ==
    EndedOnMalformedJson =>
        \/ Includes(ret.message, INFRA_DIR \o "/" \o infraDirs[idx].dirName \o "/config.json")
        \/ \E i \in 1..Len(log) :
              Includes(log[i].text, INFRA_DIR \o "/" \o infraDirs[idx].dirName \o "/config.json")

\* positions in the listing of the builder modules
BuilderPositions == {i \in 1..Len(builderModules) : builderModules[i].file \in BuilderFileNames}

\* discoverBuilders has returned
DiscoveryDone ==
    \/ pc \in {"pass1", "pass2"}
    \/ pc = "done" /\ infraRoot.exists
    \/ pc = "discoverBuilders" /\ idx > Cardinality(BuilderPositions)

\* position in the listing of the module that exports class b
ModulePosition(b) == CHOOSE i \in BuilderPositions : builderModules[i].exports = <<b>>

\* C17: a builder module whose import fails is logged and left out, the
\* failure does not leave discoverBuilders, and every other builder module is
\* registered, once, in the relative order of the listing.
C17_FailedImportIsSkipped ==
    DiscoveryDone =>
        /\ \A i \in BuilderPositions :
              IF builderModules[i].importFails
              THEN /\ \A k \in 1..Len(builders) : <<builders[k]>> /= builderModules[i].exports
                   /\ \E k \in 1..Len(log) :
                         log[k] = Err("Failed to load builder from "
                                        \o builderModules[i].file \o ":")
              ELSE \E k \in 1..Len(builders) : <<builders[k]>> = builderModules[i].exports
        /\ Len(builders) = Cardinality({i \in BuilderPositions : ~builderModules[i].importFails})
        /\ \A j, k \in 1..Len(builders) :
              j < k => ModulePosition(builders[j]) < ModulePosition(builders[k])
        /\ pc \in {"discoverBuilders", "pass1"} => ret = NoRet

\* C17 witness: the import of i18n.ts failed and the run went on to its
\* descriptors with the other four builders
C17_Witness ==
    /\ pc = "pass2"
    /\ \E i \in BuilderPositions :
          builderModules[i].file = "i18n.ts" /\ builderModules[i].importFails
    /\ builders = <<AuthBuilder, PaymentBuilder, TanStackStartBuilder, ViteBuilder>>
    /\ \E k \in 1..Len(log) : log[k] = Err("Failed to load builder from i18n.ts:")

\* the classes of the builder modules that load, in listing order
LoadableBuilders ==
    LET loadable == SelectSeq(builderModules,
                              LAMBDA m : m.file \in BuilderFileNames /\ ~m.importFails)
    IN  [i \in 1..Len(loadable) |-> loadable[i].exports[1]]

\* a step taken once the descriptors are being read leaves the builder list alone
BuildersKept == pc \in {"pass1", "pass2", "done"} => builders' = builders

\* C18: before the first descriptor is read every builder module has been
\* registered, in the order of the directory listing, and from then on the
\* builder list does not change.
C18_RegistrationBeforeFeatures ==
    /\ [](pc \in {"main", "discoverBuilders"}
            => config = NoConfig /\ ourRegistryNames = {} /\ outputDir = <<>>)
    /\ [](pc \in {"pass1", "pass2"} => builders = LoadableBuilders)
    /\ [][BuildersKept]_vars

\* C18 witness: with the listing in the opposite order the run has built a
\* feature with the builders registered in that order
C18_Witness ==
    /\ pc = "pass2"
    /\ builderModules[1].file = "vite.ts"
    /\ builders = <<ViteBuilder, TanStackStartBuilder, PaymentBuilder, I18nBuilder, AuthBuilder>>
    /\ DOMAIN outputDir /= {}

-----------------------------------------------------------------------------
(* Manifest metadata: generateRegistry applied to descriptors that differ   *)
(* in their metadata                                                       *)

MetaNames == {"auth-otp-shared", "i18n"}

MetaTypes == {"registry:lib", "registry:block", "registry:hook"}

MetaTitles == {"OTP", "One-time password"}

MetaDependencies == {Absent, Some(<<>>), Some(<<"zod", "bcrypt">>)}

MetaDevDependencies == {Absent, Some(<<"@types/bcrypt">>)}

MetaRegistryDependencies == {Absent, Some(<<"auth-otp-shared", "button">>)}

\* valid descriptors
MetaConfigs ==
    {[Descriptor(Some(n), Some(ty), Some(ti), Some("D " \o n), rd, Absent, Absent)
         EXCEPT !.dependencies = dep, !.devDependencies = dev] :
        n \in MetaNames, ty \in MetaTypes, ti \in MetaTitles,
        dep \in MetaDependencies, dev \in MetaDevDependencies,
        rd \in MetaRegistryDependencies}

InitAssemble ==
    /\ pc = "generateRegistry"
    /\ config \in MetaConfigs
    /\ ourRegistryNames = MetaNames
    /\ registryUrl = "https://r.example"
    /\ builders = DiscoveredBuilders
    /\ infraDirs = <<DirEntry(Val(config.name), TRUE, Some(JsonFile(FALSE, config)), SampleFiles)>>
    /\ idx = 1
    /\ builder = AuthBuilder
    /\ relativePath = ""
    /\ ret = NoRet
    /\ builderModules = <<>>
    /\ infraRoot = [exists |-> TRUE, entries |-> infraDirs]
    /\ outputDir = <<>>
    /\ log = <<>>

SpecAssemble == InitAssemble /\ [][NextLink]_vars

\* generateRegistry has returned a manifest
Assembled == pc = "done" /\ ret.kind = "return"

\* C19 as stated: the manifest's name, type, title, description, dependencies
\* and devDependencies all equal the descriptor's.
C19_MetadataUnchanged_AsStated ==
    Assembled =>
        /\ ret.value.name = Val(config.name)
        /\ ret.value.type = Val(config.type)
        /\ ret.value.title = Val(config.title)
        /\ ret.value.description = Val(config.description)
        /\ ret.value.dependencies = config.dependencies
        /\ ret.value.devDependencies = config.devDependencies

\* C19: the manifest's name, title, description, dependencies and
\* devDependencies equal the descriptor's (an absent list stays absent); its
\* type is "registry:lib" whatever type the descriptor declares; of the
\* descriptor's lists only registryDependencies is rewritten.
C19_MetadataUnchanged ==
    Assembled =>
        /\ ret.value.name = Val(config.name)
        /\ ret.value.type = "registry:lib"
        /\ ret.value.title = Val(config.title)
        /\ ret.value.description = Val(config.description)
        /\ ret.value.dependencies = config.dependencies
        /\ ret.value.devDependencies = config.devDependencies
        /\ Len(Entries(ret.value.registryDependencies)) = Len(Entries(config.registryDependencies))

\* C19 witness: a descriptor of type registry:block with both package lists
\* and an internal dependency has been assembled
C19_Witness ==
    /\ Assembled
    /\ Val(config.type) = "registry:block"
    /\ ret.value.type = "registry:lib"
    /\ ret.value.title = "One-time password"
    /\ ret.value.dependencies = Some(<<"zod", "bcrypt">>)
    /\ ret.value.devDependencies = Some(<<"@types/bcrypt">>)
    /\ ret.value.registryDependencies
          = Some(<<"https://r.example/auth-otp-shared.json", "button">>)

-----------------------------------------------------------------------------
(* Wildcards inside a pattern                                              *)

\* the entry that resolved the path has a pattern with a "*" that is neither
\* the whole pattern nor the end of a directory prefix
DottedWildcardCase ==
    /\ PathDone
    /\ Matching /= {}
    /\ Includes(WinningPattern, "*")
    /\ ~EndsWith(WinningPattern, "/*")
    /\ WinningPattern /= "*"

\* C21: when the winning pattern holds an embedded wildcard (.env.example.*)
\* and the template holds a "*", the target is the relative path unchanged;
\* when the template holds no "*" the target is the template itself (with its
\* {feature} placeholders filled): .env.example.* -> .env.example gives
\* .env.example.
C21_DottedWildcardPassThrough ==
    DottedWildcardCase =>
        /\ Includes(WinningTemplate, "*") => ret.value = relativePath
        /\ ~Includes(WinningTemplate, "*")
              => ret.value = ReplaceAll(WinningTemplate, "{feature}", getFeatureName(builder))
        /\ WinningTemplate = ".env.example" => ret.value = ".env.example"

\* C21 witness: the base table sends .env.example.drizzle to itself
C21_Witness ==
    /\ DottedWildcardCase
    /\ builder = AuthBuilder
    /\ config.targetMappings = Absent
    /\ relativePath = ".env.example.drizzle"
    /\ WinningPattern = ".env.example.*"
    /\ WinningTemplate = ".env.example.*"
    /\ ret.value = ".env.example.drizzle"

-----------------------------------------------------------------------------
(* The table getTargetPath resolves with                                   *)

\* the declared frameworks, none when the descriptor has no list
DeclaredFrameworkList ==
    IF config.capabilities = <<>> THEN <<>>
    ELSE IF config.capabilities[1].framework = <<>> THEN <<>>
    ELSE config.capabilities[1].framework[1]

\* the key of the claim: the first declared framework, "nextjs" when none is
\* declared or the first is "*"
FrameworkKey ==
    IF DeclaredFrameworkList = <<>> THEN "nextjs"
    ELSE IF DeclaredFrameworkList[1] = "*" THEN "nextjs"
    ELSE DeclaredFrameworkList[1]

\* the table of the claim: the descriptor's table for the key when it has
\* one, else the builder's default table
ClaimedTable ==
    IF config.targetMappings /= <<>> /\ FrameworkKey \in DOMAIN config.targetMappings[1]
    THEN config.targetMappings[1][FrameworkKey]
    ELSE defaultTargetMappings(builder)

\* positions of the entries of the claimed table whose pattern matches the path
ClaimedMatching ==
    {i \in 1..Len(ClaimedTable) : matchesPattern(relativePath, ClaimedTable[i][1])}

\* C22: getTargetPath resolves with the descriptor's targetMappings[k] as the
\* complete table when the descriptor has that table, k being the first
\* declared framework, or "nextjs" when no framework is declared or the first
\* is "*", and with the builder's default table otherwise; a path that no
\* entry of the table in use matches resolves to lib/server/{feature}/<path>.
C22_OverrideTableReplacesDefault ==
    PathDone =>
        IF ClaimedMatching = {}
        THEN ret.value = "lib/server/" \o getFeatureName(builder) \o "/" \o relativePath
        ELSE LET i == CHOOSE k \in ClaimedMatching : \A j \in ClaimedMatching : k <= j
             IN  ret.value = applyMapping(relativePath, ClaimedTable[i][1], ClaimedTable[i][2],
                                          getFeatureName(builder))

-----------------------------------------------------------------------------
(* The framework builders' canHandle, seen through getBuilder on a list    *)
(* that holds the one builder                                              *)

\* the descriptor in hand declares a framework list that holds fw, or
\* declares no list and has a name that holds mark
FrameworkOrName(fw, mark) ==
    IF config.capabilities /= <<>> /\ config.capabilities[1].framework /= <<>>
    THEN \E i \in 1..Len(config.capabilities[1].framework[1]) :
            config.capabilities[1].framework[1][i] = fw
    ELSE \E i \in 1..(Len(config.name[1]) - Len(mark) + 1) :
            SubSeq(config.name[1], i, i + Len(mark) - 1) = mark

\* C23: ViteBuilder (resp. TanStackStartBuilder) accepts a descriptor that
\* declares a framework list exactly when the list holds "vite" (resp.
\* "tanstack-start"), whatever its name; the name check for "-vite-" (resp.
\* "-tanstack-") decides only when no list is declared.
C23_FrameworkListDecides ==
    pc = "done" =>
        /\ builders = <<ViteBuilder>>
              => (ret.kind = "return" <=> FrameworkOrName("vite", "-vite-"))
        /\ builders = <<TanStackStartBuilder>>
              => (ret.kind = "return" <=> FrameworkOrName("tanstack-start", "-tanstack-"))

\* C23 witness: ViteBuilder has refused a descriptor named with -vite- that
\* declares the framework nextjs
C23_Witness ==
    /\ pc = "done"
    /\ builders = <<ViteBuilder>>
    /\ config.name = <<"auth-otp-vite-prisma">>
    /\ config.capabilities /= <<>>
    /\ config.capabilities[1].framework = <<<<"nextjs">>>>
    /\ ret.kind = "throw"

-----------------------------------------------------------------------------
(* The file walk: generateRegistry applied to feature directories that      *)
(* differ in their files                                                   *)

\* most files of a feature directory
MaxFiles == 2

\* regular files a feature directory may hold, in the order the walk meets them
WalkPool ==
    << ".env.example.drizzle", ".env.example.prisma", "README.md", "api/login.ts",
       "app.ts", "app/login/page.tsx", "components/form.tsx", "config.json",
       "emails/otp.tsx", "index.ts", "schema.ts", "schemas/drizzle.schema.ts",
       "schemas/foo.ts", "schemas/prisma.schema", "server/.env.example.local",
       "server/index.ts", "server/session.ts" >>

\* the files at the positions picked, in walk order
RECURSIVE FilesAt(_, _)
FilesAt(picked, i) ==
    IF i > Len(WalkPool) THEN <<>>
    ELSE (IF i \in picked THEN <<SourceFile(WalkPool[i], "content of " \o WalkPool[i])>>
          ELSE <<>>) \o FilesAt(picked, i + 1)

\* the walks of the directories that hold at most n of the files
WalkTrees(n) ==
    {FilesAt(picked, 1) : picked \in {P \in SUBSET (1..Len(WalkPool)) : Cardinality(P) <= n}}

\* one valid descriptor for each of four builders
WalkConfigs ==
    {FeatureConfig("auth-otp-shared", Absent, Absent),
     FeatureConfig("i18n", Absent, Absent),
     FeatureConfig("otp-tanstack-shared", Absent, Absent),
     FeatureConfig("otp-vite-shared", Absent, Some(<<"vite">>))}

InitWalk ==
    /\ pc = "generateRegistry"
    /\ config \in WalkConfigs
    /\ ourRegistryNames = {Val(config.name)}
    /\ registryUrl = "https://r.example"
    /\ builders = DiscoveredBuilders
    /\ \E files \in WalkTrees(MaxFiles) :
          infraDirs = <<DirEntry(Val(config.name), TRUE, Some(JsonFile(FALSE, config)), files)>>
    /\ idx = 1
    /\ builder = AuthBuilder
    /\ relativePath = ""
    /\ ret = NoRet
    /\ builderModules = <<>>
    /\ infraRoot = [exists |-> TRUE, entries |-> infraDirs]
    /\ outputDir = <<>>
    /\ log = <<>>

SpecWalk == InitWalk /\ [][NextLink]_vars

\* the name of a file: the text after the last "/" of its path
RECURSIVE FileName(_)
FileName(path) ==
    IF \E i \in 1..Len(path) : SubSeq(path, i, i) = "/"
    THEN FileName(SubSeq(path, 2, Len(path)))
    ELSE path

\* the text holds sub
Holds(text, sub) ==
    \E i \in 1..(Len(text) - Len(sub) + 1) : SubSeq(text, i, i + Len(sub) - 1) = sub

\* the text ends with sub
EndsIn(text, sub) ==
    Len(text) >= Len(sub) /\ SubSeq(text, Len(text) - Len(sub) + 1, Len(text)) = sub

\* the files the claim makes part of the manifest
Eligible(path) ==
    LET name == FileName(path)
    IN  \/ Len(name) >= 13 /\ SubSeq(name, 1, 13) = ".env.example."
        \/ /\ EndsIn(name, ".ts") \/ EndsIn(name, ".tsx")
           /\ name /= "index.ts"
           /\ ~Holds(name, "schema")

\* the files of the feature directory in hand
WalkedFiles == infraDirs[1].files

\* the manifest's paths, relative to the feature directory
ManifestPaths ==
    [i \in 1..Len(ret.value.files) |->
        SubSeq(ret.value.files[i].path,
               Len(INFRA_DIR) + Len(infraDirs[1].dirName) + 3,
               Len(ret.value.files[i].path))]

\* C24: the manifest's files are exactly the walked files whose name starts
\* with ".env.example." or ends in .ts or .tsx without being index.ts or
\* holding "schema", at any depth and in walk order; config.json and every
\* other file are left out, and directory names play no part.
C24_EligibleFiles ==
    Assembled =>
        ManifestPaths = [i \in 1..Len(SelectSeq(WalkedFiles, LAMBDA f : Eligible(f.path))) |->
                            SelectSeq(WalkedFiles, LAMBDA f : Eligible(f.path))[i].path]

\* C24 witness: a file of the schemas directory is kept, the descriptor is not
C24_Witness ==
    /\ Assembled
    /\ Len(WalkedFiles) = 2
    /\ WalkedFiles[1].path = "config.json"
    /\ WalkedFiles[2].path = "schemas/foo.ts"
    /\ ManifestPaths = <<"schemas/foo.ts">>

\* the builder generateRegistry selects for the descriptor in hand
WalkBuilder == getBuilder(Val(config.name), config, builders).value

\* the walked directory holds the file
Walked(path) == \E i \in 1..Len(WalkedFiles) : WalkedFiles[i].path = path

\* the manifest holds the file with the target
InManifest(path, target) ==
    \E i \in 1..Len(ret.value.files) :
        ManifestPaths[i] = path /\ ret.value.files[i].target = target

\* C25: in a manifest assembled with ViteBuilder or TanStackStartBuilder and
\* the default table, the source file schemas/drizzle.schema.ts appears with
\* the target src/db/schema/{feature}.ts and the source file
\* schemas/prisma.schema with the target prisma/schema.prisma.
C25_SchemaTargets ==
    (Assembled /\ WalkBuilder \in {ViteBuilder, TanStackStartBuilder}) =>
        /\ Walked("schemas/drizzle.schema.ts")
              => InManifest("schemas/drizzle.schema.ts",
                            "src/db/schema/" \o getFeatureName(WalkBuilder) \o ".ts")
        /\ Walked("schemas/prisma.schema")
              => InManifest("schemas/prisma.schema", "prisma/schema.prisma")

\* the role the claim gives a relative path
RoleOf(path) ==
    IF \/ Len(path) >= 11 /\ SubSeq(path, 1, 11) = "components/"
       \/ Len(path) >= 7 /\ SubSeq(path, 1, 7) = "emails/"
    THEN "registry:block"
    ELSE IF Len(path) >= 4 /\ SubSeq(path, 1, 4) = "app/"
         THEN "registry:page"
         ELSE "registry:lib"

\* C26: the type of every file of a manifest is registry:block when its
\* relative path starts with components/ or emails/, registry:page when it
\* starts with app/ and registry:lib otherwise, whatever builder was selected
\* and whatever the target.
C26_FileTypeFromLeadingSegment ==
    Assembled =>
        \A i \in 1..Len(ret.value.files) :
            ret.value.files[i].type = RoleOf(ManifestPaths[i])

\* C26 witness: ViteBuilder has moved an email template under src/ and a file
\* named app.ts under src/lib; the one is a block, the other a lib
C26_Witness ==
    /\ Assembled
    /\ WalkBuilder = ViteBuilder
    /\ ManifestPaths = <<"app.ts", "emails/otp.tsx">>
    /\ ret.value.files[1].type = "registry:lib"
    /\ ret.value.files[2].type = "registry:block"
    /\ ret.value.files[2].target = "src/emails/otp.tsx"

\* C27: no two files of one manifest have the same target.
C27_DistinctTargets ==
    Assembled =>
        \A i, j \in 1..Len(ret.value.files) :
            i /= j => ret.value.files[i].target /= ret.value.files[j].target

-----------------------------------------------------------------------------
(* The two passes of the build run                                         *)

\* a feature directory of the infra directory holds a malformed config.json
SomeMalformed ==
    \E i \in 1..Len(FeatureDirs) : FeatureDirs[i].configJson[1].malformed

\* C28: when a discovered descriptor file holds malformed JSON, whatever its
\* place in the listing, pass 2 is never entered, no manifest is ever
\* written, and the run ends with the error.
C28_MalformedAbortsInPass1 ==
    SomeMalformed =>
        /\ pc /= "pass2"
        /\ outputDir = <<>>
        /\ pc = "done" => ret.kind = "throw"

\* C28 witness: the malformed descriptor is the second of two; the first was
\* parsed, nothing was written
C28_Witness ==
    /\ pc = "done"
    /\ ret.kind = "throw"
    /\ Len(infraDirs) = 2
    /\ infraDirs[1].dirName = "auth-otp-shared"
    /\ infraDirs[2].dirName = "broken"
    /\ idx = 2
    /\ ourRegistryNames = {"auth-otp-shared"}
    /\ outputDir = <<>>

\* the names the descriptors of the feature directories declare
DeclaredNames == {DeclaredName(FeatureDirs[i]) : i \in 1..Len(FeatureDirs)}

\* the entry is a link into this registry, and the name it links
IsInternalLink(e) ==
    /\ Len(e) > Len(registryUrl) + 6
    /\ SubSeq(e, 1, Len(registryUrl) + 1) = registryUrl \o "/"
    /\ SubSeq(e, Len(e) - 4, Len(e)) = ".json"

LinkedFile(e) == SubSeq(e, Len(registryUrl) + 2, Len(e))

\* a step of pass 2 leaves the set of internal names alone
NamesKept == pc = "pass2" => ourRegistryNames' = ourRegistryNames

\* C29: after a successful run every registryDependencies entry of a written
\* manifest that is a link {baseUrl}/{name}.json names a manifest written in
\* the run; during pass 2 the set of internal names is the set of names the
\* descriptors declare, as pass 1 collected it, and does not change.
C29_NoDanglingInternalLink ==
    /\ [](Succeeded =>
            \A f \in DOMAIN outputDir :
                \A i \in 1..Len(Entries(outputDir[f].registryDependencies)) :
                    IsInternalLink(Entries(outputDir[f].registryDependencies)[i])
                        => LinkedFile(Entries(outputDir[f].registryDependencies)[i])
                              \in DOMAIN outputDir)
    /\ [](pc = "pass2" => ourRegistryNames = DeclaredNames)
    /\ [][NamesKept]_vars

\* C29 witness: auth-otp-prisma was written with its link to auth-otp-shared,
\* which was written after it, and with the external name button
C29_Witness ==
    /\ Succeeded
    /\ Len(infraDirs) = 2
    /\ infraDirs[1].dirName = "auth-otp-prisma"
    /\ DOMAIN outputDir = {"auth-otp-prisma.json", "auth-otp-shared.json"}
    /\ outputDir["auth-otp-prisma.json"].registryDependencies
          = <<<<"https://r.example/auth-otp-shared.json", "button">>>>

\* feature directories before the last that declare the name of a later one
HasDuplicateNames ==
    \E i, j \in 1..Len(FeatureDirs) :
        i < j /\ DeclaredName(FeatureDirs[i]) = DeclaredName(FeatureDirs[j])

\* the manifest was assembled from the files of the directory
AssembledFrom(item, dirName) ==
    \A k \in 1..Len(item.files) :
        /\ Len(item.files[k].path) > Len(INFRA_DIR) + Len(dirName) + 2
        /\ SubSeq(item.files[k].path, 1, Len(INFRA_DIR) + Len(dirName) + 2)
              = INFRA_DIR \o "/" \o dirName \o "/"

\* pass 2 is at a valid descriptor with a builder, whose {name}.json exists
AtWrittenName ==
    /\ pc = "pass2"
    /\ ~FailsAtPass2
    /\ (DeclaredName(infraDirs[idx]) \o ".json") \in DOMAIN outputDir

\* the step at a name already written writes the same file again
Overwrites ==
    AtWrittenName =>
        /\ ret'.kind /= "throw"
        /\ DOMAIN outputDir' = DOMAIN outputDir
        /\ AssembledFrom(outputDir'[DeclaredName(infraDirs[idx]) \o ".json"],
                         infraDirs[idx].dirName)
        /\ Len(log') > Len(log)
        /\ log'[Len(log) + 1].stream = "stdout"

\* C30: a name declared by two feature directories is not refused: the later
\* directory is assembled and written over the earlier one's {name}.json
\* without an error, so that after a successful run the file holds the
\* manifest of the directory processed last and fewer manifest files exist
\* than the count the run reports.
C30_DuplicateNamesOverwrite ==
    /\ [][Overwrites]_vars
    /\ [](Succeeded /\ HasDuplicateNames =>
            /\ Len(GeneratedLines) = Len(FeatureDirs)
            /\ log[Len(log)] = Out("Done! Generated " \o NumStr(Len(FeatureDirs))
                                      \o " infrastructure items.")
            /\ Cardinality(DOMAIN outputDir) < Len(FeatureDirs)
            /\ \A j \in 1..Len(FeatureDirs) :
                  (\A k \in (j + 1)..Len(FeatureDirs) :
                        DeclaredName(FeatureDirs[k]) /= DeclaredName(FeatureDirs[j]))
                     => AssembledFrom(outputDir[DeclaredName(FeatureDirs[j]) \o ".json"],
                                      FeatureDirs[j].dirName))

\* C30 witness: auth-otp-shared-copy, which declares the name auth-otp-shared,
\* was processed second; the one file holds its manifest and the run reports
\* two items
C30_Witness ==
    /\ Succeeded
    /\ Len(infraDirs) = 2
    /\ infraDirs[1].dirName = "auth-otp-shared"
    /\ infraDirs[2].dirName = "auth-otp-shared-copy"
    /\ DOMAIN outputDir = {"auth-otp-shared.json"}
    /\ Len(outputDir["auth-otp-shared.json"].files) = 1
    /\ outputDir["auth-otp-shared.json"].files[1].path
          = "src/registry/infra/auth-otp-shared-copy/db.ts"
    /\ log[Len(log)] = Out("Done! Generated 2 infrastructure items.")

====
